---- MODULE Spec2Model ----
(***************************************************************************)
(* time-series-cop: the streaming text-to-typed-document pipeline of       *)
(* src/src/lib/pipeline.js.                                                *)
(*                                                                         *)
(* LinesSpec models lineStream/fieldStream (line tokenizer, line window,   *)
(* blank-line policy, recordIndex numbering).                              *)
(* EncSpec applies the two encoders, writeDocToLineProtocol and            *)
(* prepDocForInfluxDB, to one document under one schema.                   *)
(* Spec models a pipeline that ends in saveData: records and errors come   *)
(* from upstream, go through an encoder to the file or to the database in  *)
(* batches, and the first error stops the stream.                          *)
(* ValSpec puts one record through validateDoc, with the strict and lax    *)
(* validators of src/src/lib/validation.js; F2dSpec puts records through   *)
(* fieldsToDoc; SchSpec calls validateSchema on a schema and again on the  *)
(* schema it returned, and constructs a stage with a schema.               *)
(* OrdSpec encodes a document whose keys are in any order; TwoSpec         *)
(* consumes two lineStream instances in turns; FldSpec splits the texts of *)
(* records into fields.                                                    *)
(* StreamEncSpec encodes a typed document that follows another; MeasSpec   *)
(* calls validateMeasurement; HdrSpec validates the header of a standard   *)
(* file (src/unnamed/part_008); SinkSpec follows the calls                 *)
(* writeDocToInfluxDB makes to the database, batch after batch.            *)
(***************************************************************************)
EXTENDS Integers, Sequences, FiniteSets, TLC

(***************************************************************************)
(* Bounds of the model.                                                    *)
(***************************************************************************)
\* longest input text, in characters
MaxLen == 5
\* largest value of the start option
MaxStart == 2
\* largest finite value of the end option
MaxEnd == 3
\* largest lineIndex of a document handed to an encoder alone
MaxLineIndex == 1
\* the most records and errors that come from upstream in one run
MaxItems == 4
\* largest time of a document of the pipeline, in milliseconds
MaxTime == 2
\* largest batchSize
MaxBatch == 2
\* the most records that go through fieldsToDoc in one run
MaxRecords == 3

(***************************************************************************)
(* Characters of the input text after eolFix(): a line terminator and one  *)
(* ordinary character.                                                     *)
(***************************************************************************)
NL == "\n"
Alphabet == {"x", NL}

\* end=Infinity (pipeline.js:36): larger than every line index of the model
Infinity == MaxLen + 2

VARIABLES
  \* ---- lineStream / fieldStream (pipeline.js:33-103, 541-576)
  input,              \* the text of instream, line endings normalized
  start,              \* option start
  end,                \* option end
  dropInternalBlank,  \* option dropInternalBlank
  dropFinalBlank,     \* option dropFinalBlank
  lsI,                \* lineStream's counter i (pipeline.js:40)
  sliceIndex,         \* the index counter of .slice(start, end)
  blankBuffer,        \* dropBlanks' buffer (pipeline.js:542)
  fsI,                \* fieldStream's counter i (pipeline.js:81)
  out,                \* the records fieldStream has emitted, in order
  ended,              \* end-of-stream (nil) has been pushed downstream
  \* ---- one document through one encoder (pipeline.js:193-329)
  schema,             \* the validated schema: key -> type, NoType if absent
  doc,                \* o.doc: key -> value, Absent if the key is not there
  lineIndex,          \* o.lineIndex
  encPhase,           \* "init", then the encoder applied: "lp" or "db"
  encResult,          \* what the encoder returned or threw
  \* ---- a pipeline ending in saveData (pipeline.js:193-505)
  path,               \* "lp": to outstream; "db": to the database
  ensureSorted,       \* writeDocToLineProtocol's option
  stops,              \* the pipeline ends with stopOnError
  batchSize,          \* writeDocToInfluxDB's option
  prevtime,           \* writeDocToLineProtocol's prevtime
  nextLine,           \* lineIndex of the next record or error from upstream
  count,              \* saveData's count
  batch,              \* the points .batch() holds
  outstream,          \* the lines written to outstream
  writes,             \* the batches handed to influx.writePoints
  error,              \* the error stopOnError caught
  pipeEnded,          \* the stream has ended
  message,            \* what done() reported
  lastIn,             \* the last document from upstream
  lastOut,            \* what the encoder made of it
  \* ---- one record through validateDoc (pipeline.js:141-172)
  vSchema,            \* the validated schema: column -> type, NoType if absent
  vStrict,            \* validateDoc's argument strict
  vLine,              \* o.lineIndex
  raw,                \* the raw document handed to validateDoc
  heap,               \* the objects: reference -> column -> value
  oDoc,               \* o.doc, a reference
  oOrigDoc,           \* o.origDoc, a reference, 0 while undefined
  vPhase,             \* "init", "validated", then "written" downstream
  vResult,            \* the record passed downstream or the error thrown
  \* ---- records through fieldsToDoc (pipeline.js:116-129)
  headers,            \* fieldsToDoc's argument headers
  fStrict,            \* fieldsToDoc's argument strict
  fIn,                \* the records that came from upstream, in order
  fOut,               \* the records and errors passed downstream, in order
  \* ---- validateSchema (validation.js:93-106)
  sHeap,              \* the objects: reference -> key -> type string
  sArg,               \* the reference handed to validateSchema
  sOriginal,          \* what the argument held before the call
  sReturned,          \* the last value returned: error and schema reference
  sFirst,             \* the value the first call returned
  sPhase,             \* "init", "validated", "revalidated"; or, for a
                      \* stage: "constructed", "refused"
  cStage,             \* the stage constructed with the schema
  cThrown,            \* what the constructor threw
  cSchema,            \* the schema the constructed stage works with
  cRead,              \* the records that went through the stage
  \* ---- writeDocToLineProtocol on a document with ordered keys
  docKeys,            \* Object.keys(o.doc), in order
  tagList,            \* Object.keys of the record's tags, in order
  fieldList,          \* Object.keys of the record's fields, in order
  \* ---- two lineStreams at once (pipeline.js:33-47, 541-576)
  tInput,             \* instance -> the text of its instream
  tState,             \* instance -> "new", "open" or "ended"
  tPos,               \* instance -> the lines dropBlanks has been given
  tOut,               \* instance -> the lines it has emitted
  globalBuffer,       \* blankBuffer, a property of the global object
  \* ---- fieldStream's field splitting (pipeline.js:81-101)
  delimiter,          \* option delimiter
  fsCount,            \* fieldStream's counter i
  fsRecord,           \* the record that came out last
  \* ---- validateMeasurement (validation.js:108-111)
  mName,              \* the argument measurement
  mPhase,             \* "init", then "returned"
  mResult,            \* what validateMeasurement returned
  \* ---- the header of a standard file (part_008:406-594)
  hRaw,               \* rawheader: header line -> the fields of its record
  hPhase,             \* "init", then "accepted" or "rejected"
  hThrown,            \* the error validateStandardHeader threw
  hLines,             \* the lines parseStandardBody wrote to the output
  \* ---- the calls writeDocToInfluxDB makes (pipeline.js:385-446)
  kWindow,            \* option windowSize
  kStops,             \* the pipeline ends with stopOnError
  kBatch,             \* the batch at hand, counted from 1
  kPhase,             \* the call awaited: "none", "ping", "write", "query"
  kLog,               \* the calls made and their completions, in order
  kErrors,            \* the batches whose error went down the stream
  kEnded              \* the stream has ended

lineVars == <<input, start, end, dropInternalBlank, dropFinalBlank,
              lsI, sliceIndex, blankBuffer, fsI, out, ended>>

encVars == <<schema, doc, lineIndex, encPhase, encResult>>

pipeVars == <<path, ensureSorted, stops, batchSize, prevtime, nextLine,
              count, batch, outstream, writes, error, pipeEnded, message,
              lastIn, lastOut>>

valVars == <<vSchema, vStrict, vLine, raw, heap, oDoc, oOrigDoc, vPhase,
             vResult>>

f2dVars == <<headers, fStrict, fIn, fOut>>

schVars == <<sHeap, sArg, sOriginal, sReturned, sFirst, sPhase,
             cStage, cThrown, cSchema, cRead>>

validationVars == <<valVars, f2dVars, schVars>>

ordVars == <<docKeys, tagList, fieldList>>

twoVars == <<tInput, tState, tPos, tOut, globalBuffer>>

fldVars == <<delimiter, fsCount, fsRecord>>

measVars == <<mName, mPhase, mResult>>

headerVars == <<hRaw, hPhase, hThrown, hLines>>

sinkVars == <<kWindow, kStops, kBatch, kPhase, kLog, kErrors, kEnded>>

boundaryVars == <<measVars, headerVars, sinkVars>>

stageVars == <<ordVars, twoVars, fldVars, boundaryVars>>

vars == <<lineVars, encVars, pipeVars, validationVars, stageVars>>

(***************************************************************************)
(* Helpers on sequences.                                                   *)
(***************************************************************************)
SeqsUpTo(S, n) == UNION {[1..k -> S] : k \in 0..n}

(***************************************************************************)
(* .split(): the text is cut at every terminator; whatever follows the     *)
(* last terminator is pushed as a last line at end-of-stream, also when it *)
(* is empty. A stream with no text at all yields no line.                  *)
(***************************************************************************)
RECURSIVE SplitAcc(_, _, _, _)
SplitAcc(s, k, cur, acc) ==
  IF k > Len(s) THEN Append(acc, cur)
  ELSE IF s[k] = NL THEN SplitAcc(s, k + 1, <<>>, Append(acc, cur))
  ELSE SplitAcc(s, k + 1, Append(cur, s[k]), acc)

Split(s) == IF s = <<>> THEN <<>> ELSE SplitAcc(s, 1, <<>>, <<>>)

\* the physical lines of the stream
lines == Split(input)

\* .map(line => ({ text: line, lineIndex: i++ }))
LineStreamMap(text, i) == [text |-> text, lineIndex |-> i]

(***************************************************************************)
(* .slice(start, end): an empty window yields the empty stream; otherwise  *)
(* a line passes when index++ >= start and the stream goes on while        *)
(* index < end, else end-of-stream is pushed right after the line.         *)
(***************************************************************************)
SliceEmptyWindow == start >= end
\* mutant: the window opens one line late
SlicePassesLate(index) == index > start
SlicePasses(index) == index >= start
\* mutant: the window closes one line late
SliceGoesOnLate(index) == index <= end
SliceGoesOn(index) == index < end

(***************************************************************************)
(* dropBlanks: the handler on a line and on end-of-stream. Each returns    *)
(* the new buffer and the lines pushed downstream.                         *)
(***************************************************************************)
\* mutant: the buffered blank lines are pushed when they should be dropped
DropBlanksLineInverted(buf, x) ==
  IF Len(x.text) = 0
  THEN [buf |-> Append(buf, x), pushed |-> <<>>]
  ELSE [buf |-> <<>>,
        pushed |-> (IF dropInternalBlank THEN buf ELSE <<>>) \o <<x>>]

\* mutant: a non-blank line leaves the buffer as it is
DropBlanksLineNoReset(buf, x) ==
  IF Len(x.text) = 0
  THEN [buf |-> Append(buf, x), pushed |-> <<>>]
  ELSE [buf |-> buf,
        pushed |-> (IF ~dropInternalBlank THEN buf ELSE <<>>) \o <<x>>]

DropBlanksLine(buf, x) ==
  IF Len(x.text) = 0
  THEN [buf |-> Append(buf, x), pushed |-> <<>>]
  ELSE [buf |-> <<>>,
        pushed |-> (IF ~dropInternalBlank THEN buf ELSE <<>>) \o <<x>>]

\* mutant: the final blank lines are pushed whatever dropFinalBlank is
DropBlanksNilAlways(buf) ==
  [buf |-> <<>>,
   pushed |-> IF Len(buf) > 0 THEN SubSeq(buf, 1, Len(buf) - 1) ELSE <<>>]

DropBlanksNil(buf) ==
  [buf |-> <<>>,
   pushed |-> IF ~dropFinalBlank /\ Len(buf) > 0
              THEN SubSeq(buf, 1, Len(buf) - 1)
              ELSE <<>>]

(***************************************************************************)
(* fieldStream's last doto: o.recordIndex = i++ on every line that comes   *)
(* out of lineStream.                                                      *)
(***************************************************************************)
\* mutant: the record counter follows the line counter
FieldStreamIndexByLine(pushed, i) ==
  [k \in 1..Len(pushed) |->
     [text |-> pushed[k].text,
      lineIndex |-> pushed[k].lineIndex,
      recordIndex |-> pushed[k].lineIndex]]

FieldStreamIndex(pushed, i) ==
  [k \in 1..Len(pushed) |->
     [text |-> pushed[k].text,
      lineIndex |-> pushed[k].lineIndex,
      recordIndex |-> i + (k - 1)]]

LinesIdle ==
  /\ input = <<>>
  /\ start = 0
  /\ end = Infinity
  /\ dropInternalBlank = TRUE
  /\ dropFinalBlank = TRUE
  /\ lsI = 0
  /\ sliceIndex = 0
  /\ blankBuffer = <<>>
  /\ fsI = 0
  /\ out = <<>>
  /\ ended = TRUE

(***************************************************************************)
(* Initial states of the tokenizer.                                        *)
(***************************************************************************)
LinesStart ==
  /\ input \in SeqsUpTo(Alphabet, MaxLen)
  /\ start \in 0..MaxStart
  /\ end \in (0..MaxEnd) \cup {Infinity}
  /\ dropInternalBlank \in BOOLEAN
  /\ dropFinalBlank \in BOOLEAN
  /\ lsI = 0
  /\ sliceIndex = 0
  /\ blankBuffer = <<>>
  /\ fsI = 0
  /\ out = <<>>
  /\ ended = FALSE

\* what the stages downstream of dropBlanks do with the lines it pushed
Emit(pushed) ==
  /\ out' = out \o FieldStreamIndex(pushed, fsI)
  /\ fsI' = fsI + Len(pushed)

(***************************************************************************)
(* The window is empty (start >= end): end-of-stream reaches dropBlanks at *)
(* once.                                                                   *)
(***************************************************************************)
EmptyWindow ==
  /\ ~ended
  /\ SliceEmptyWindow
  /\ LET r == DropBlanksNil(blankBuffer) IN
       /\ blankBuffer' = r.buf
       /\ Emit(r.pushed)
  /\ ended' = TRUE
  /\ UNCHANGED <<input, start, end, dropInternalBlank, dropFinalBlank,
                 lsI, sliceIndex, encVars, pipeVars, validationVars,
                 stageVars>>

(***************************************************************************)
(* One line is pulled from the splitter: it is numbered, the slice lets it *)
(* through or not, dropBlanks handles it, and when the slice reaches end   *)
(* it pushes end-of-stream in the same call.                               *)
(***************************************************************************)
PullLine ==
  /\ ~ended
  /\ ~SliceEmptyWindow
  /\ lsI < Len(lines)
  /\ LET x == LineStreamMap(lines[lsI + 1], lsI)
         r1 == IF SlicePasses(sliceIndex)
               THEN DropBlanksLine(blankBuffer, x)
               ELSE [buf |-> blankBuffer, pushed |-> <<>>]
         goesOn == SliceGoesOn(sliceIndex + 1)
         r2 == IF goesOn THEN [buf |-> r1.buf, pushed |-> <<>>]
               ELSE DropBlanksNil(r1.buf)
     IN
       /\ lsI' = lsI + 1
       /\ sliceIndex' = sliceIndex + 1
       /\ blankBuffer' = r2.buf
       /\ Emit(r1.pushed \o r2.pushed)
       /\ ended' = ~goesOn
  /\ UNCHANGED <<input, start, end, dropInternalBlank, dropFinalBlank,
                 encVars, pipeVars, validationVars, stageVars>>

(***************************************************************************)
(* The splitter has no more lines: end-of-stream goes through the slice to *)
(* dropBlanks.                                                             *)
(***************************************************************************)
PullNil ==
  /\ ~ended
  /\ ~SliceEmptyWindow
  /\ lsI = Len(lines)
  /\ LET r == DropBlanksNil(blankBuffer) IN
       /\ blankBuffer' = r.buf
       /\ Emit(r.pushed)
  /\ ended' = TRUE
  /\ UNCHANGED <<input, start, end, dropInternalBlank, dropFinalBlank,
                 lsI, sliceIndex, encVars, pipeVars, validationVars,
                 stageVars>>

LinesNext == EmptyWindow \/ PullLine \/ PullNil

(***************************************************************************)
(* Values of a document. JavaScript values are records of one shape:       *)
(* kind, and the string or the number the kind carries.                    *)
(***************************************************************************)
Val(kind, str, num) == [kind |-> kind, s |-> str, n |-> num]
Null == Val("null", "", 0)
Undefined == Val("undefined", "", 0)
NaN == Val("NaN", "", 0)
Str(str) == Val("string", str, 0)
Num(num) == Val("number", "", num)
True == Val("boolean", "true", 0)
\* the key is not in the object
Absent == Val("absent", "", 0)

\* the keys of documents and schemas, in Object.keys order
KeyOrder == <<"k1", "k2", "k3">>
Keys == {KeyOrder[i] : i \in 1..Len(KeyOrder)}

\* validation.validTypes
Types == {"category", "text", "float", "integer", "boolean", "time"}
\* schema[k] is undefined
NoType == "none"

\* the values a document may hold under a key
DocValues == {Null, Undefined, NaN, Str(""), Str("a"), Num(0)}

MissingDataField == "influxMissingData"
Measurement == "m"
\* +time * 1000 * 1000
NanosPerMilli == 1000000

(***************************************************************************)
(* JavaScript's conversions, on the values of the model.                   *)
(***************************************************************************)
\* unary plus
ToNumber(v) ==
  CASE v.kind = "number" -> v
    [] v.kind = "string" /\ v.s = "" -> Num(0)
    [] v.kind = "null" -> Num(0)
    [] OTHER -> NaN

\* string conversion, as in v + 'i'
ToStr(v) ==
  CASE v.kind = "number" -> ToString(v.n)
    [] v.kind = "string" -> v.s
    [] v.kind = "boolean" -> v.s
    [] OTHER -> v.kind

\* if (v)
Truthy(v) ==
  \/ v.kind = "string" /\ v.s # ""
  \/ v.kind = "number" /\ v.n # 0
  \/ v.kind = "boolean" /\ v.s = "true"

\* mutant: >= for >
GreaterOrEqual(a, b) == a.kind = "number" /\ b.kind = "number" /\ a.n >= b.n

\* a > b on numbers: false when either is NaN
Greater(a, b) == a.kind = "number" /\ b.kind = "number" /\ a.n > b.n

\* a * m on numbers
Times(a, m) == IF a.kind = "number" THEN Num(a.n * m) ELSE NaN

\* Influx.escape.quoted(v)
Quoted(v) == Val("quoted", ToStr(v), 0)

(***************************************************************************)
(* The test both encoders make on every value:                             *)
(*   o.doc[k] !== null && o.doc[k] !== NaN && o.doc[k] !== undefined       *)
(* where x !== NaN holds of every x, NaN included.                         *)
(***************************************************************************)
Defined(v) == v.kind # "null" /\ TRUE /\ v.kind # "undefined"

\* the keys Object.keys(o.doc).forEach visits and lets through
DefinedKeys(d) == {k \in Keys : d[k] # Absent /\ Defined(d[k])}

\* the last assignment to time made by the forEach, undefined if none
RECURSIVE TimeOf(_, _, _, _)
TimeOf(d, sch, i, acc) ==
  IF i > Len(KeyOrder) THEN acc
  ELSE LET k == KeyOrder[i] IN
       TimeOf(d, sch, i + 1,
              IF k \in DefinedKeys(d) /\ sch[k] = "time" THEN d[k] ELSE acc)

\* mutant: the field set is left as it is
WithMissingDataNever(fields) == fields

\* fields.influxMissingData = true when no field is present
WithMissingData(fields) ==
  IF DOMAIN fields = {} THEN (MissingDataField :> True) ELSE fields

\* mutant: the error names the zero-based lineIndex
TimeMissingZeroBased(o) ==
  [kind |-> "error", msg |-> "time value missing", line |-> o.lineIndex]

TimeMissing(o) ==
  [kind |-> "error", msg |-> "time value missing", line |-> o.lineIndex + 1]
NotAscending(o) ==
  [kind |-> "error",
   msg |-> "records not in ascending chronological order",
   line |-> o.lineIndex + 1]

(***************************************************************************)
(* writeDocToLineProtocol: the function mapped over the records. prev is   *)
(* prevtime, sorted is ensureSorted. The result is the record handed to    *)
(* JsonInfluxDbStream, or the error thrown.                                *)
(***************************************************************************)
\* mutant: an integer is written as it is in the document
LineProtocolFieldsBare(d, sch) ==
  LET ks == {k \in DefinedKeys(d) :
               \/ sch[k] = "text" /\ Truthy(d[k])
               \/ sch[k] \in {"integer", "float", "boolean"}}
  IN [k \in ks |-> IF sch[k] = "text" THEN Quoted(d[k]) ELSE d[k]]

LineProtocolFields(d, sch) ==
  LET ks == {k \in DefinedKeys(d) :
               \/ sch[k] = "text" /\ Truthy(d[k])
               \/ sch[k] \in {"integer", "float", "boolean"}}
  IN [k \in ks |->
        CASE sch[k] = "text" -> Quoted(d[k])
          [] sch[k] = "integer" -> Str(ToStr(d[k]) \o "i")
          [] OTHER -> d[k]]

Tags(d, sch) ==
  [k \in {k \in DefinedKeys(d) : sch[k] = "category"} |-> d[k]]

LineProtocolRecord(o, sch, prev, sorted) ==
  LET fields == WithMissingData(LineProtocolFields(o.doc, sch))
      tags == Tags(o.doc, sch)
      time == TimeOf(o.doc, sch, 1, Undefined)
  IN IF time = Undefined THEN TimeMissing(o)
     ELSE IF sorted /\ prev # Null /\ Greater(prev, ToNumber(time))
          THEN NotAscending(o)
     ELSE [kind |-> "record",
           measurement |-> Measurement,
           ts |-> Times(ToNumber(time), NanosPerMilli),
           tags |-> tags,
           fields |-> fields]

(***************************************************************************)
(* prepDocForInfluxDB: the function mapped over the records.               *)
(***************************************************************************)
\* mutant: a text is no field of a point
PointFieldsNoText(d, sch) ==
  [k \in {k \in DefinedKeys(d) :
            sch[k] \notin {"category", "time", "text", NoType}}
     |-> d[k]]

\* mutant: a key the schema gives no type is a field
PointFieldsUntyped(d, sch) ==
  [k \in {k \in DefinedKeys(d) : sch[k] \notin {"category", "time"}}
     |-> d[k]]

PointFields(d, sch) ==
  [k \in {k \in DefinedKeys(d) : sch[k] \notin {"category", "time", NoType}}
     |-> d[k]]

PreparedPoint(o, sch) ==
  LET fields == WithMissingData(PointFields(o.doc, sch))
      tags == Tags(o.doc, sch)
      t == TimeOf(o.doc, sch, 1, Undefined)
      time == IF t = Undefined THEN Undefined ELSE ToNumber(t)
  IN IF time = Undefined THEN TimeMissing(o)
     ELSE [kind |-> "record",
           measurement |-> Measurement,
           ts |-> time,
           tags |-> tags,
           fields |-> fields]

(***************************************************************************)
(* EncSpec: one document, one schema, one encoder.                         *)
(***************************************************************************)
NoResult == [kind |-> "none"]

EncIdle ==
  /\ schema = [k \in Keys |-> NoType]
  /\ doc = [k \in Keys |-> Absent]
  /\ lineIndex = 0
  /\ encPhase = "idle"
  /\ encResult = NoResult

EncInit ==
  /\ schema \in [Keys -> Types \cup {NoType}]
  /\ doc \in [Keys -> DocValues \cup {Absent}]
  /\ lineIndex \in 0..MaxLineIndex
  /\ encPhase = "init"
  /\ encResult = NoResult

\* the record o of the stream
EncInput == [doc |-> doc, lineIndex |-> lineIndex]

\* the document goes through a fresh writeDocToLineProtocol
EncodeLineProtocol ==
  /\ encPhase = "init"
  /\ encPhase' = "lp"
  /\ encResult' = LineProtocolRecord(EncInput, schema, Null, TRUE)
  /\ UNCHANGED <<schema, doc, lineIndex, lineVars, pipeVars, validationVars,
                 stageVars>>

\* the document goes through prepDocForInfluxDB
PrepareForInfluxDB ==
  /\ encPhase = "init"
  /\ encPhase' = "db"
  /\ encResult' = PreparedPoint(EncInput, schema)
  /\ UNCHANGED <<schema, doc, lineIndex, lineVars, pipeVars, validationVars,
                 stageVars>>

EncNext == EncodeLineProtocol \/ PrepareForInfluxDB

(***************************************************************************)
(* A pipeline ending in saveData. Upstream (fieldStream, fieldsToDoc,      *)
(* validateDoc) hands it records {doc, lineIndex} and errors.              *)
(***************************************************************************)
\* the schema of the pipeline's documents
PipeSchema == [k \in Keys |->
                 CASE k = "k1" -> "time" [] k = "k2" -> "category" [] OTHER -> "text"]

\* the documents upstream may hand over: with or without a time
PipeDocs ==
  {[k \in Keys |-> CASE k = "k1" -> t [] k = "k2" -> Str("a") [] OTHER -> v] :
     t \in {Absent} \cup {Num(i) : i \in 0..MaxTime}, v \in {Null, Str("a")}}

\* an error raised upstream for the record of a line
UpstreamError(line) ==
  [kind |-> "error", msg |-> "validation", line |-> line + 1]
\* an error of the database client while the record of a line is handled
SinkError(line) ==
  [kind |-> "error", msg |-> "database", line |-> line + 1]

\* mutant: the error is reported and the stream goes on
StopOnErrorNever == FALSE

\* stopOnError ends the stream at the first error
StopOnErrorEnds == stops

\* points.sort((a, b) => a.timestamp - b.timestamp): the arrangements of a
\* batch in ascending timestamp order
Arrangements(b) ==
  LET n == Len(b)
      perms == {f \in [1..n -> 1..n] : \A i, j \in 1..n : i # j => f[i] # f[j]}
  IN {[i \in 1..n |-> b[f[i]]] : f \in perms}
\* mutant: the batch is written in any order
UnsortedBatches(b) == Arrangements(b)

SortedBatches(b) ==
  {a \in Arrangements(b) :
     \A i, j \in 1..Len(a) : i < j => a[i].ts.n <= a[j].ts.n}

PipeIdle ==
  /\ path = "lp"
  /\ ensureSorted = TRUE
  /\ stops = TRUE
  /\ batchSize = 1
  /\ prevtime = Null
  /\ nextLine = 0
  /\ count = 0
  /\ batch = <<>>
  /\ outstream = <<>>
  /\ writes = <<>>
  /\ error = NoResult
  /\ pipeEnded = TRUE
  /\ message = "none"
  /\ lastIn = NoResult
  /\ lastOut = NoResult

PipeInit ==
  /\ path \in {"lp", "db"}
  /\ ensureSorted \in BOOLEAN
  /\ stops \in BOOLEAN
  /\ batchSize \in 1..MaxBatch
  /\ prevtime = Null
  /\ nextLine = 0
  /\ count = 0
  /\ batch = <<>>
  /\ outstream = <<>>
  /\ writes = <<>>
  /\ error = NoResult
  /\ pipeEnded = FALSE
  /\ message = "none"
  /\ lastIn = NoResult
  /\ lastOut = NoResult

\* mutant: the error is not kept
CatchUnrecorded(e) ==
  /\ error' = error
  /\ pipeEnded' = StopOnErrorEnds
  /\ UNCHANGED message

\* an error reaches the end of the pipeline: stopOnError keeps it and ends
\* the stream, and done() then reports nothing
Catch(e) ==
  /\ error' = IF error = NoResult THEN e ELSE error
  /\ pipeEnded' = StopOnErrorEnds
  /\ UNCHANGED message

\* a batch goes to the database: sorted, then written or refused
Flush(b, line) ==
  \E sorted \in SortedBatches(b), ok \in BOOLEAN :
    IF ok
    THEN /\ writes' = Append(writes, sorted)
         /\ UNCHANGED <<error, pipeEnded, message>>
    ELSE /\ UNCHANGED writes
         /\ Catch(SinkError(line))

(***************************************************************************)
(* Upstream hands over a record, on the line-protocol path: it is counted, *)
(* encoded, and written to outstream, or the encoder's error is caught.    *)
(***************************************************************************)
WriteLine ==
  /\ ~pipeEnded
  /\ path = "lp"
  /\ nextLine < MaxItems
  /\ \E d \in PipeDocs :
       LET o == [doc |-> d, lineIndex |-> nextLine]
           r == LineProtocolRecord(o, PipeSchema, prevtime, ensureSorted)
       IN /\ lastIn' = d
          /\ lastOut' = r
          /\ IF r.kind = "record"
             THEN /\ prevtime' = ToNumber(TimeOf(d, PipeSchema, 1, Undefined))
                  /\ outstream' = Append(outstream, [line |-> nextLine, ts |-> r.ts])
                  /\ UNCHANGED <<error, pipeEnded, message>>
             ELSE /\ Catch(r)
                  /\ UNCHANGED <<prevtime, outstream>>
  /\ count' = count + 1
  /\ nextLine' = nextLine + 1
  /\ UNCHANGED <<path, ensureSorted, stops, batchSize, batch, writes,
                 lineVars, encVars, validationVars, stageVars>>

(***************************************************************************)
(* Upstream hands over a record, on the database path: it is counted,      *)
(* prepared and batched; a full batch is sorted and written.               *)
(***************************************************************************)
BatchPoint ==
  /\ ~pipeEnded
  /\ path = "db"
  /\ nextLine < MaxItems
  /\ \E d \in PipeDocs :
       LET o == [doc |-> d, lineIndex |-> nextLine]
           r == PreparedPoint(o, PipeSchema)
           b == Append(batch, [line |-> nextLine, ts |-> r.ts])
       IN /\ lastIn' = d
          /\ lastOut' = r
          /\ IF r.kind = "record"
             THEN IF Len(b) = batchSize
                  THEN /\ batch' = <<>>
                       /\ Flush(b, nextLine)
                  ELSE /\ batch' = b
                       /\ UNCHANGED <<writes, error, pipeEnded, message>>
             ELSE /\ Catch(r)
                  /\ UNCHANGED <<batch, writes>>
  /\ count' = count + 1
  /\ nextLine' = nextLine + 1
  /\ UNCHANGED <<path, ensureSorted, stops, batchSize, prevtime, outstream,
                 lineVars, encVars, validationVars, stageVars>>

(***************************************************************************)
(* Upstream hands over an error: it passes the counter, the encoder and    *)
(* the batch untouched and is caught.                                      *)
(***************************************************************************)
UpstreamFails ==
  /\ ~pipeEnded
  /\ nextLine < MaxItems
  /\ Catch(UpstreamError(nextLine))
  /\ lastIn' = NoResult
  /\ lastOut' = UpstreamError(nextLine)
  /\ nextLine' = nextLine + 1
  /\ UNCHANGED <<path, ensureSorted, stops, batchSize, prevtime, count,
                 batch, outstream, writes, lineVars, encVars, validationVars,
                 stageVars>>

(***************************************************************************)
(* Upstream ends: the points still batched are sorted and written, and     *)
(* done() reports the count unless an error was caught.                    *)
(***************************************************************************)
UpstreamEnds ==
  /\ ~pipeEnded
  /\ IF path = "db" /\ Len(batch) > 0
     THEN \E sorted \in SortedBatches(batch), ok \in BOOLEAN :
            /\ writes' = IF ok THEN Append(writes, sorted) ELSE writes
            /\ error' = IF ~ok /\ error = NoResult
                        THEN SinkError(nextLine) ELSE error
     ELSE UNCHANGED <<writes, error>>
  /\ batch' = <<>>
  /\ pipeEnded' = TRUE
  /\ message' = IF error' = NoResult THEN "success" ELSE "none"
  /\ lastIn' = NoResult
  /\ lastOut' = NoResult
  /\ UNCHANGED <<path, ensureSorted, stops, batchSize, prevtime, nextLine,
                 count, outstream, lineVars, encVars, validationVars,
                 stageVars>>

Next == WriteLine \/ BatchPoint \/ UpstreamFails \/ UpstreamEnds

(***************************************************************************)
(* Strings of raw values and of schema types: sequences of characters,     *)
(* with the string functions the validators call.                          *)
(***************************************************************************)
LowerCaseLetters ==
  <<"a", "b", "c", "d", "e", "f", "g", "h", "i", "j", "k", "l", "m",
    "n", "o", "p", "q", "r", "s", "t", "u", "v", "w", "x", "y", "z">>
UpperCaseLetters ==
  <<"A", "B", "C", "D", "E", "F", "G", "H", "I", "J", "K", "L", "M",
    "N", "O", "P", "Q", "R", "S", "T", "U", "V", "W", "X", "Y", "Z">>
Digits == {"0", "1", "2", "3", "4", "5", "6", "7", "8", "9"}
WhiteSpace == {" ", "\t"}
Signs == {"-", "+"}

ToUpperChar(c) ==
  IF \E i \in DOMAIN LowerCaseLetters : LowerCaseLetters[i] = c
  THEN UpperCaseLetters[CHOOSE i \in DOMAIN LowerCaseLetters :
                          LowerCaseLetters[i] = c]
  ELSE c
ToLowerChar(c) ==
  IF \E i \in DOMAIN UpperCaseLetters : UpperCaseLetters[i] = c
  THEN LowerCaseLetters[CHOOSE i \in DOMAIN UpperCaseLetters :
                          UpperCaseLetters[i] = c]
  ELSE c

\* String.prototype.toUpperCase, toLowerCase
ToUpperCase(s) == [i \in 1..Len(s) |-> ToUpperChar(s[i])]
ToLowerCase(s) == [i \in 1..Len(s) |-> ToLowerChar(s[i])]

\* String.prototype.trim
RECURSIVE TrimStart(_)
TrimStart(s) ==
  IF s # <<>> /\ s[1] \in WhiteSpace THEN TrimStart(Tail(s)) ELSE s
RECURSIVE TrimEnd(_)
TrimEnd(s) ==
  IF s # <<>> /\ s[Len(s)] \in WhiteSpace
  THEN TrimEnd(SubSeq(s, 1, Len(s) - 1))
  ELSE s
Trim(s) == TrimEnd(TrimStart(s))

AllDigits(t) == \A i \in 1..Len(t) : t[i] \in Digits
Unsigned(t) == IF t # <<>> /\ t[1] \in Signs THEN Tail(t) ELSE t

\* validator.isInt(value): /^(?:[-+]?(?:0|[1-9][0-9]*))$/
IsInt(s) ==
  LET t == Unsigned(s) IN
    t # <<>> /\ AllDigits(t) /\ (t[1] = "0" => Len(t) = 1)

\* validator.isFloat(value): not '' and not '.', and
\* /^(?:[-+]?(?:[0-9]+))?(?:\.[0-9]*)?(?:[eE][\+\-]?(?:[0-9]+))?$/
FloatWhole(t) == t = <<>> \/ (Unsigned(t) # <<>> /\ AllDigits(Unsigned(t)))
FloatFraction(t) == t = <<>> \/ (t[1] = "." /\ AllDigits(Tail(t)))
FloatExponent(t) ==
  t = <<>> \/ (/\ t[1] \in {"e", "E"}
               /\ Unsigned(Tail(t)) # <<>>
               /\ AllDigits(Unsigned(Tail(t))))
IsFloat(s) ==
  /\ s # <<>>
  /\ s # <<".">>
  /\ \E i, j \in 0..Len(s) :
       /\ i <= j
       /\ FloatWhole(SubSeq(s, 1, i))
       /\ FloatFraction(SubSeq(s, i + 1, j))
       /\ FloatExponent(SubSeq(s, j + 1, Len(s)))

\* moment.utc(value, moment.ISO_8601, true).isValid(), for the calendar
\* date form YYYY-MM-DD
IsISO8601(s) ==
  /\ Len(s) = 10
  /\ \A i \in 1..10 : IF i \in {5, 8} THEN s[i] = "-" ELSE s[i] \in Digits
  /\ <<s[6], s[7]>> \in ({<<"0", d>> : d \in Digits \ {"0"}}
                          \cup {<<"1", d>> : d \in {"0", "1", "2"}})
  /\ <<s[9], s[10]>> \in ({<<"0", d>> : d \in Digits \ {"0"}}
                           \cup {<<d, e>> : d \in {"1", "2"}, e \in Digits})

(***************************************************************************)
(* Values of raw and typed documents: strings, moments, null, and the      *)
(* mark of a key the object does not have.                                 *)
(***************************************************************************)
StringV(chars) == [kind |-> "string", chars |-> chars]
MomentV(chars) == [kind |-> "moment", chars |-> chars]
NullV == [kind |-> "null", chars |-> <<>>]
AbsentV == [kind |-> "absent", chars |-> <<>>]

\* error: null
NoError == "null"
\* what a validator returns, or the exception it throws
Returns(err, value) == [thrown |-> "none", error |-> err, value |-> value]
Throws(name) == [thrown |-> name, error |-> NoError, value |-> NullV]

NA == <<"N", "A">>
NaNText == <<"N", "a", "N">>
TrueText == <<"T", "R", "U", "E">>
FalseText == <<"F", "A", "L", "S", "E">>

IsMissing(value) == value = NA \/ value = NaNText

(***************************************************************************)
(* validators.strict                                                       *)
(***************************************************************************)
StrictText(value) ==
  IF IsMissing(value) THEN Returns(NoError, NullV)
  ELSE IF value = <<>> THEN Returns("Empty text value", StringV(value))
  ELSE Returns(NoError, StringV(value))

StrictCategory(value) ==
  IF IsMissing(value) THEN Returns(NoError, NullV)
  ELSE IF value = <<>> THEN Returns("Empty category value", StringV(value))
  ELSE Returns(NoError, StringV(value))

StrictFloat(value) ==
  IF IsFloat(value) THEN Returns(NoError, StringV(value))
  ELSE IF IsMissing(value) THEN Returns(NoError, NullV)
  ELSE IF value = <<>> THEN Returns("Empty float value", StringV(value))
  ELSE Returns("Not a float", StringV(value))

StrictInteger(value) ==
  IF IsInt(value) THEN Returns(NoError, StringV(value))
  ELSE IF IsMissing(value) THEN Returns(NoError, NullV)
  ELSE IF value = <<>> THEN Returns("Empty integer value", StringV(value))
  ELSE Returns("Not an integer", StringV(value))

\* mutant: the value is compared as it is spelled
StrictBooleanAsSpelled(value) ==
  IF value = TrueText \/ value = FalseText
  THEN Returns(NoError, StringV(value))
  ELSE IF IsMissing(value) THEN Returns(NoError, NullV)
  ELSE IF value = <<>> THEN Returns("Empty boolean value", StringV(value))
  ELSE Returns("Invalid boolean value", StringV(value))

StrictBoolean(value) ==
  LET upper == ToUpperCase(value) IN
    IF upper = TrueText \/ upper = FalseText
    THEN Returns(NoError, StringV(upper))
    ELSE IF IsMissing(upper) THEN Returns(NoError, NullV)
    ELSE IF upper = <<>> THEN Returns("Empty boolean value", StringV(upper))
    ELSE Returns("Invalid boolean value", StringV(upper))

StrictTime(value) ==
  IF ~IsISO8601(value)
  THEN Returns("Invalid ISO8601 timestamp", StringV(value))
  ELSE Returns(NoError, MomentV(value))

(***************************************************************************)
(* validators.lax                                                          *)
(***************************************************************************)
LaxText(value) ==
  Returns(NoError, IF value = <<>> THEN NullV ELSE StringV(value))

LaxCategory(value) ==
  Returns(NoError, IF value = <<>> THEN NullV ELSE StringV(value))

LaxFloat(value) ==
  Returns(NoError, IF ~IsFloat(value) THEN NullV ELSE StringV(value))

LaxInteger(value) ==
  Returns(NoError, IF ~IsInt(value) THEN NullV ELSE StringV(value))

\* val is no variable of the function or of the module: reading it throws
LaxBoolean(value) == Throws("ReferenceError")

\* mutant: an invalid time becomes null
LaxTimeNull(value) ==
  Returns(NoError, IF ~IsISO8601(value) THEN NullV ELSE MomentV(value))

\* m is a const: the assignment m = null throws
LaxTime(value) ==
  IF ~IsISO8601(value) THEN Throws("TypeError")
  ELSE Returns(NoError, MomentV(value))

\* validator[schema[k]](value)
Validate(strict, type, value) ==
  CASE type = "text" -> IF strict THEN StrictText(value) ELSE LaxText(value)
    [] type = "category" ->
         IF strict THEN StrictCategory(value) ELSE LaxCategory(value)
    [] type = "float" -> IF strict THEN StrictFloat(value) ELSE LaxFloat(value)
    [] type = "integer" ->
         IF strict THEN StrictInteger(value) ELSE LaxInteger(value)
    [] type = "boolean" ->
         IF strict THEN StrictBoolean(value) ELSE LaxBoolean(value)
    [] type = "time" -> IF strict THEN StrictTime(value) ELSE LaxTime(value)

(***************************************************************************)
(* validateDoc on one record. The raw document has string values, as       *)
(* fieldsToDoc makes them, or null; the schema is the validated one.       *)
(***************************************************************************)
\* the columns of raw documents and schemas, in Object.keys order
ColumnOrder == <<"c1", "c2">>
Columns == {ColumnOrder[i] : i \in 1..Len(ColumnOrder)}

\* the strings a raw document may hold
RawTexts ==
  {<<>>, <<" ">>, NA, NaNText, <<"n", "a">>,
   <<"t", "r", "u", "e">>, FalseText,
   <<"1">>, <<" ", "1">>, <<"1", ".", "5">>, <<"x">>,
   <<"2", "0", "1", "7", "-", "0", "5", "-", "0", "6">>}
RawValues == {StringV(t) : t \in RawTexts} \cup {NullV, AbsentV}

\* the objects of a record: the raw document and the typed one
Refs == 1..2

\* mutant: every key of the schema starts as null
NullDoc == [k \in Columns |-> IF vSchema[k] # NoType THEN NullV ELSE AbsentV]

\* o.doc = {}
EmptyDoc == [k \in Columns |-> AbsentV]

\* mutant: o.doc stays the object it was
SameRef(ref) == ref

\* {} is a new object
FreshRef(ref) == ref + 1

\* what happened to the record: passed downstream, or an error thrown
Outcome(kind, name, msg, line, column, value, type) ==
  [kind |-> kind, name |-> name, message |-> msg, line |-> line,
   column |-> column, value |-> value, type |-> type]
NoOutcome == Outcome("none", "", "", 0, "", NullV, "")
PassedOn == Outcome("record", "", "", 0, "", NullV, "")
\* an exception that is no TimeSeriesCopError
Exception(name) == Outcome("error", name, "", 0, "", NullV, "")

\* mutant: the message carries lineIndex
ValidationErrorZeroBased(msg, o, k, type) ==
  Outcome("error", "TimeSeriesCopError", msg, o.lineIndex, k,
          o.origDoc[k], type)

\* `${v.error} on line ${o.lineIndex + 1}. column=${k},
\*  value=${o.origDoc[k]}, type=${schema[k]}`
ValidationError(msg, o, k, type) ==
  Outcome("error", "TimeSeriesCopError", msg, o.lineIndex + 1, k,
          o.origDoc[k], type)

\* Object.keys(o.origDoc).forEach: the typed document so far, and the
\* error that ended the loop if one did
RECURSIVE ValidateFrom(_, _, _, _, _)
ValidateFrom(o, sch, strict, i, typed) ==
  IF i > Len(ColumnOrder) THEN [outcome |-> PassedOn, doc |-> typed]
  ELSE LET k == ColumnOrder[i]
           v == Validate(strict, sch[k], Trim(o.origDoc[k].chars))
       IN IF o.origDoc[k] = AbsentV \/ sch[k] = NoType \/ o.origDoc[k] = NullV
          THEN ValidateFrom(o, sch, strict, i + 1, typed)
          ELSE IF v.thrown # "none"
          THEN [outcome |-> Exception(v.thrown), doc |-> typed]
          ELSE IF v.error # NoError
          THEN [outcome |-> ValidationError(v.error, o, k, sch[k]),
                doc |-> typed]
          ELSE ValidateFrom(o, sch, strict, i + 1,
                            [typed EXCEPT ![k] = v.value])

ValIdle ==
  /\ vSchema = [k \in Columns |-> NoType]
  /\ vStrict = FALSE
  /\ vLine = 0
  /\ raw = [k \in Columns |-> AbsentV]
  /\ heap = [r \in Refs |-> [k \in Columns |-> AbsentV]]
  /\ oDoc = 1
  /\ oOrigDoc = 0
  /\ vPhase = "idle"
  /\ vResult = NoOutcome

ValInit ==
  /\ vSchema \in [Columns -> Types \cup {NoType}]
  /\ vStrict \in BOOLEAN
  /\ vLine \in 0..MaxLineIndex
  /\ raw \in [Columns -> RawValues]
  /\ heap = [r \in Refs |-> IF r = 1 THEN raw ELSE [k \in Columns |-> AbsentV]]
  /\ oDoc = 1
  /\ oOrigDoc = 0
  /\ vPhase = "init"
  /\ vResult = NoOutcome

\* the record goes through validateDoc's doto
ValidateDoc ==
  /\ vPhase = "init"
  /\ LET o == [origDoc |-> heap[oDoc], lineIndex |-> vLine]
         r == ValidateFrom(o, vSchema, vStrict, 1, EmptyDoc)
         new == FreshRef(oDoc)
     IN /\ oOrigDoc' = oDoc
        /\ oDoc' = new
        /\ heap' = [heap EXCEPT ![new] = r.doc]
        /\ vResult' = r.outcome
  /\ vPhase' = "validated"
  /\ UNCHANGED <<vSchema, vStrict, vLine, raw, f2dVars, schVars,
                 lineVars, encVars, pipeVars, stageVars>>

\* downstream a stage writes into the typed document, as parseStandardBody's
\* o.doc.cruise = header.cruise.data
WriteToDoc ==
  /\ vPhase = "validated"
  /\ vResult.kind = "record"
  /\ \E k \in Columns :
       heap' = [heap EXCEPT ![oDoc][k] = StringV(<<"x", "x">>)]
  /\ vPhase' = "written"
  /\ UNCHANGED <<vSchema, vStrict, vLine, raw, oDoc, oOrigDoc, vResult,
                 f2dVars, schVars, lineVars, encVars, pipeVars, stageVars>>

ValNext == ValidateDoc \/ WriteToDoc

(***************************************************************************)
(* fieldsToDoc over the records of a stream.                               *)
(***************************************************************************)
\* the header rows and the field rows of the model
HeaderRows == {<<"h1">>, <<"h1", "h2">>, <<"h2", "h2">>}
FieldRows == {<<>>, <<"a">>, <<"b", "a">>, <<"a", "b", "a">>}

\* what fieldsToDoc passes downstream: a record with its doc, or an error
Passed(o, d) ==
  [kind |-> "record", lineIndex |-> o.lineIndex, fields |-> o.fields,
   doc |-> d, line |-> 0]
ColumnCountError(o) ==
  [kind |-> "error", lineIndex |-> o.lineIndex, fields |-> o.fields,
   doc |-> <<>>, line |-> o.lineIndex + 1]

\* _.zipObject(headers, o.fields): a later header of the same name wins
ZipObject(hs, fs) ==
  [h \in {hs[i] : i \in 1..Len(hs)} |->
     fs[CHOOSE i \in 1..Len(hs) :
          hs[i] = h /\ \A j \in 1..Len(hs) : hs[j] = h => j <= i]]

\* mutant: the filter lets every record through
FilterKeepsAll(o, hs) == TRUE

\* stream.filter(o => o.fields.length === headers.length)
FilterKeeps(o, hs) == Len(o.fields) = Len(hs)

\* the lineIndex of the record that came last, -1 before the first
LastLineIndex == IF fIn = <<>> THEN -1 ELSE fIn[Len(fIn)].lineIndex

F2dIdle ==
  /\ headers = <<>>
  /\ fStrict = FALSE
  /\ fIn = <<>>
  /\ fOut = <<>>

F2dInit ==
  /\ headers \in HeaderRows
  /\ fStrict \in BOOLEAN
  /\ fIn = <<>>
  /\ fOut = <<>>

\* a record comes from fieldStream and goes through fieldsToDoc
FieldsToDoc ==
  /\ Len(fIn) < MaxRecords
  /\ \E fs \in FieldRows, skipped \in 0..1 :
       LET o == [fields |-> fs, lineIndex |-> LastLineIndex + 1 + skipped]
       IN /\ fIn' = Append(fIn, o)
          /\ fOut' =
               IF ~fStrict /\ ~FilterKeeps(o, headers) THEN fOut
               ELSE IF Len(o.fields) # Len(headers)
               THEN Append(fOut, ColumnCountError(o))
               ELSE Append(fOut, Passed(o, ZipObject(headers, o.fields)))
  /\ UNCHANGED <<headers, fStrict, valVars, schVars,
                 lineVars, encVars, pipeVars, stageVars>>

F2dNext == FieldsToDoc

(***************************************************************************)
(* validateSchema. Schemas are objects on a heap, so that a change of the  *)
(* argument shows.                                                         *)
(***************************************************************************)
SchemaKeyOrder == <<"p1", "p2">>
SchemaKeys == {SchemaKeyOrder[i] : i \in 1..Len(SchemaKeyOrder)}

TextType == <<"t", "e", "x", "t">>
TimeType == <<"t", "i", "m", "e">>
FloatType == <<"f", "l", "o", "a", "t">>
CategoryType == <<"c", "a", "t", "e", "g", "o", "r", "y">>
IntegerType == <<"i", "n", "t", "e", "g", "e", "r">>
BooleanType == <<"b", "o", "o", "l", "e", "a", "n">>

\* validTypes
ValidTypes ==
  {CategoryType, TextType, FloatType, IntegerType, BooleanType, TimeType}

\* the type strings a schema of the model may hold
TypeTexts ==
  ValidTypes \cup {<<"T", "e", "X", "t">>, <<" ">> \o TimeType \o <<" ">>,
                   <<"B", "a", "d">>, <<>>}

SchemaObjects == UNION {[D -> TypeTexts] : D \in SUBSET SchemaKeys}

\* the schema objects: the argument, and one clone for each call
SchemaRefs == 1..3

NoSchemaError == [null |-> TRUE, text |-> <<>>]

\* mutant: the error is the value as it was compared
SchemaErrorNormalized(text) ==
  [null |-> FALSE, text |-> Trim(ToLowerCase(text))]

SchemaError(text) == [null |-> FALSE, text |-> text]

\* mutant: the normalized schema is written into the argument
CloneAlias(arg, new) == arg

\* _.clone(schema)
Clone(arg, new) == new

\* toCheck[i].toLowerCase().trim()
NormalizeType(text) == Trim(ToLowerCase(text))

\* validateSchema(schema) on the object arg, with new the next free
\* reference: the heap afterwards and the value returned
ValidateSchema(h, arg, new) ==
  LET vschema == Clone(arg, new)
      cloned == [h EXCEPT ![vschema] = h[arg]]
      keys == DOMAIN cloned[vschema]
      invalid == {i \in 1..Len(SchemaKeyOrder) :
                    /\ SchemaKeyOrder[i] \in keys
                    /\ NormalizeType(cloned[vschema][SchemaKeyOrder[i]])
                         \notin ValidTypes}
      first == CHOOSE i \in invalid : \A j \in invalid : i <= j
  IN IF invalid # {}
     THEN [heap |-> cloned,
           returned |->
             [error |-> SchemaError(cloned[vschema][SchemaKeyOrder[first]]),
              schema |-> arg]]
     ELSE [heap |-> [cloned EXCEPT
                       ![vschema] = [k \in keys |->
                                       NormalizeType(cloned[vschema][k])]],
           returned |-> [error |-> NoSchemaError, schema |-> vschema]]

NothingReturned == [error |-> NoSchemaError, schema |-> 0]

\* the stages that validate the schema they are constructed with
Stages ==
  {"validateDoc", "writeDocToLineProtocol", "prepDocForInfluxDB",
   "writeDocToInfluxDB"}

\* if (schemaValidation.error): null and the empty string are falsy
ErrorIsTruthy(e) == ~e.null /\ e.text # <<>>

NothingThrown == [name |-> "none", tag |-> <<>>]
\* throw new TimeSeriesCopError(`Invalid type '${schemaValidation.error}'`)
InvalidType(e) == [name |-> "TimeSeriesCopError", tag |-> e.text]

SchIdle ==
  /\ sHeap = [r \in SchemaRefs |-> <<>>]
  /\ sArg = 1
  /\ sOriginal = <<>>
  /\ sReturned = NothingReturned
  /\ sFirst = NothingReturned
  /\ sPhase = "idle"
  /\ cStage = "none"
  /\ cThrown = NothingThrown
  /\ cSchema = 0
  /\ cRead = 0

SchInit ==
  /\ sOriginal \in SchemaObjects
  /\ sHeap = [r \in SchemaRefs |-> IF r = 1 THEN sOriginal ELSE <<>>]
  /\ sArg = 1
  /\ sReturned = NothingReturned
  /\ sFirst = NothingReturned
  /\ sPhase = "init"
  /\ cStage = "none"
  /\ cThrown = NothingThrown
  /\ cSchema = 0
  /\ cRead = 0

\* validateSchema is called on the schema
CallValidateSchema ==
  /\ sPhase = "init"
  /\ LET r == ValidateSchema(sHeap, sArg, 2) IN
       /\ sHeap' = r.heap
       /\ sReturned' = r.returned
       /\ sFirst' = r.returned
  /\ sPhase' = "validated"
  /\ UNCHANGED <<sArg, sOriginal, cStage, cThrown, cSchema, cRead,
                 valVars, f2dVars,
                 lineVars, encVars, pipeVars, stageVars>>

\* validateSchema is called on the schema the first call returned, as
\* validateDoc and the encoders each do on the schema they are given
CallAgain ==
  /\ sPhase = "validated"
  /\ LET r == ValidateSchema(sHeap, sReturned.schema, 3) IN
       /\ sHeap' = r.heap
       /\ sReturned' = r.returned
  /\ sPhase' = "revalidated"
  /\ UNCHANGED <<sArg, sOriginal, sFirst, cStage, cThrown, cSchema, cRead,
                 valVars, f2dVars,
                 lineVars, encVars, pipeVars, stageVars>>

\* a stage is constructed with the schema: it validates the schema, throws
\* if the error returned is truthy, and otherwise keeps the schema returned
Construct ==
  /\ sPhase = "init"
  /\ \E stage \in Stages :
       LET r == ValidateSchema(sHeap, sArg, 2) IN
         /\ cStage' = stage
         /\ sHeap' = r.heap
         /\ sReturned' = r.returned
         /\ sFirst' = r.returned
         /\ IF ErrorIsTruthy(r.returned.error)
            THEN /\ cThrown' = InvalidType(r.returned.error)
                 /\ cSchema' = 0
                 /\ sPhase' = "refused"
            ELSE /\ cThrown' = NothingThrown
                 /\ cSchema' = r.returned.schema
                 /\ sPhase' = "constructed"
  /\ UNCHANGED <<sArg, sOriginal, cRead, valVars, f2dVars,
                 lineVars, encVars, pipeVars, stageVars>>

\* a record of the stream goes through the constructed stage
ProcessRecord ==
  /\ sPhase = "constructed"
  /\ cRead < MaxRecords
  /\ cRead' = cRead + 1
  /\ UNCHANGED <<sHeap, sArg, sOriginal, sReturned, sFirst, sPhase,
                 cStage, cThrown, cSchema, valVars, f2dVars,
                 lineVars, encVars, pipeVars, stageVars>>

SchNext == CallValidateSchema \/ CallAgain \/ Construct \/ ProcessRecord

ValidationIdle == ValIdle /\ F2dIdle /\ SchIdle

(***************************************************************************)
(* writeDocToLineProtocol on a typed document whose keys are in any order. *)
(* The tags and the fields of the record are objects filled while the keys *)
(* of the document are visited; their keys are listed in insertion order.  *)
(***************************************************************************)
\* the orders Object.keys(o.doc) may have
KeyOrders ==
  {p \in [1..Len(KeyOrder) -> Keys] :
     \A i, j \in 1..Len(KeyOrder) : i # j => p[i] # p[j]}

\* the values of a typed document
TypedValues == {Absent, Str(""), Str("7"), Num(2)}

\* schemas with one time column at most
OrdSchemas ==
  {sch \in [Keys -> Types \cup {NoType}] :
     Cardinality({k \in Keys : sch[k] = "time"}) <= 1}

\* the keys of order that the object f has, in that order
RECURSIVE Filtered(_, _)
Filtered(order, f) ==
  IF order = <<>> THEN <<>>
  ELSE (IF Head(order) \in DOMAIN f THEN <<Head(order)>> ELSE <<>>)
         \o Filtered(Tail(order), f)

\* mutant: the keys are listed in the order of the schema's keys
KeysInSchemaOrder(order, f) == Filtered(KeyOrder, f)

\* Object.keys of an object filled by Object.keys(o.doc).forEach
KeysInOrder(order, f) == Filtered(order, f)

OrdIdle ==
  /\ docKeys = KeyOrder
  /\ tagList = <<>>
  /\ fieldList = <<>>

OrdInit ==
  /\ schema \in OrdSchemas
  /\ doc \in [Keys -> TypedValues]
  /\ lineIndex = 0
  /\ encPhase = "init"
  /\ encResult = NoResult
  /\ docKeys \in KeyOrders
  /\ tagList = <<>>
  /\ fieldList = <<>>

\* the document goes through a fresh writeDocToLineProtocol; the missing
\* data field is set after the keys of the document have been visited
EncodeOrdered ==
  /\ encPhase = "init"
  /\ encPhase' = "lp"
  /\ LET r == LineProtocolRecord(EncInput, schema, Null, TRUE) IN
       /\ encResult' = r
       /\ tagList' = IF r.kind = "record"
                     THEN KeysInOrder(docKeys, r.tags) ELSE <<>>
       /\ fieldList' = IF r.kind = "record"
                       THEN KeysInOrder(Append(docKeys, MissingDataField),
                                        r.fields)
                       ELSE <<>>
  /\ UNCHANGED <<schema, doc, lineIndex, docKeys, twoVars, fldVars,
                 boundaryVars,
                 lineVars, pipeVars, validationVars>>

OrdNext == EncodeOrdered

(***************************************************************************)
(* Two lineStream instances consumed in turns. dropBlanks assigns          *)
(*   blankBuffer = [];                                                     *)
(* without declaring it and the file is not in strict mode, so the buffer  *)
(* is one property of the global object: every call of dropBlanks resets   *)
(* it and every handler reads and writes it. Both instances have the       *)
(* default window (start 0, end Infinity), which lets every line through,  *)
(* and the same dropInternalBlank and dropFinalBlank.                      *)
(***************************************************************************)
MaxTwoLen == 3
Instances == {"A", "B"}

\* .map(line => ({ text: line, lineIndex: i++ })) of one instance; src
\* tells the objects of the two instances apart
TwoLine(inst, text, i) == [text |-> text, lineIndex |-> i, src |-> inst]

\* the lines instance inst emits when nothing else touches its buffer
RECURSIVE RunAlone(_, _, _, _)
RunAlone(inst, ls, i, buf) ==
  IF i = Len(ls) THEN DropBlanksNil(buf).pushed
  ELSE LET r == DropBlanksLine(buf, TwoLine(inst, ls[i + 1], i))
       IN r.pushed \o RunAlone(inst, ls, i + 1, r.buf)

TwoIdle ==
  /\ tInput = [inst \in Instances |-> <<>>]
  /\ tState = [inst \in Instances |-> "idle"]
  /\ tPos = [inst \in Instances |-> 0]
  /\ tOut = [inst \in Instances |-> <<>>]
  /\ globalBuffer = <<>>

TwoInit ==
  /\ tInput \in [Instances -> SeqsUpTo(Alphabet, MaxTwoLen)]
  /\ tState = [inst \in Instances |-> "new"]
  /\ tPos = [inst \in Instances |-> 0]
  /\ tOut = [inst \in Instances |-> <<>>]
  /\ globalBuffer = <<>>

\* lineStream(...) is called: dropBlanks(...) runs and resets the buffer
CreateStream ==
  \E inst \in Instances :
    /\ tState[inst] = "new"
    /\ tState' = [tState EXCEPT ![inst] = "open"]
    /\ globalBuffer' = <<>>
    /\ UNCHANGED <<tInput, tPos, tOut, ordVars, fldVars, boundaryVars,
                   lineVars, encVars, pipeVars, validationVars>>

\* one line of an instance reaches its dropBlanks handler
TwoPullLine ==
  \E inst \in Instances :
    /\ tState[inst] = "open"
    /\ tPos[inst] < Len(Split(tInput[inst]))
    /\ LET x == TwoLine(inst, Split(tInput[inst])[tPos[inst] + 1], tPos[inst])
           r == DropBlanksLine(globalBuffer, x)
       IN /\ globalBuffer' = r.buf
          /\ tOut' = [tOut EXCEPT ![inst] = @ \o r.pushed]
    /\ tPos' = [tPos EXCEPT ![inst] = @ + 1]
    /\ UNCHANGED <<tInput, tState, ordVars, fldVars, boundaryVars,
                   lineVars, encVars, pipeVars, validationVars>>

\* end-of-stream of an instance reaches its dropBlanks handler
TwoPullNil ==
  \E inst \in Instances :
    /\ tState[inst] = "open"
    /\ tPos[inst] = Len(Split(tInput[inst]))
    /\ LET r == DropBlanksNil(globalBuffer)
       IN /\ globalBuffer' = r.buf
          /\ tOut' = [tOut EXCEPT ![inst] = @ \o r.pushed]
    /\ tState' = [tState EXCEPT ![inst] = "ended"]
    /\ UNCHANGED <<tInput, tPos, ordVars, fldVars, boundaryVars,
                   lineVars, encVars, pipeVars, validationVars>>

TwoNext == CreateStream \/ TwoPullLine \/ TwoPullNil

(***************************************************************************)
(* fieldStream's dotos on the records that come out of lineStream. A text  *)
(* is a sequence of characters. CSV.parse is given texts without quotes    *)
(* and without line ends, which it splits at every delimiter.              *)
(***************************************************************************)
MaxText == 3
TextAlphabet == {"a", " ", "\t", ","}
Delimiters == {"whitespace", "\t", ","}

\* String.prototype.split(/\s+/): the pieces between the runs of whitespace
RECURSIVE SplitRuns(_, _, _, _)
SplitRuns(s, cur, inRun, acc) ==
  IF s = <<>> THEN Append(acc, cur)
  ELSE IF Head(s) \in WhiteSpace
       THEN IF inRun THEN SplitRuns(Tail(s), cur, TRUE, acc)
            ELSE SplitRuns(Tail(s), <<>>, TRUE, Append(acc, cur))
       ELSE SplitRuns(Tail(s), Append(cur, Head(s)), FALSE, acc)

\* return line.trim().split(/\s+/);
splitOnWhitespace(line) == SplitRuns(Trim(line), <<>>, FALSE, <<>>)

\* CSV.parse(o.text, delimiter)[0]
RECURSIVE SplitAt(_, _, _, _)
SplitAt(s, delim, cur, acc) ==
  IF s = <<>> THEN Append(acc, cur)
  ELSE IF Head(s) = delim
       THEN SplitAt(Tail(s), delim, <<>>, Append(acc, cur))
       ELSE SplitAt(Tail(s), delim, Append(cur, Head(s)), acc)
CsvParse(text, delim) == SplitAt(text, delim, <<>>, <<>>)

\* mutant: the text is split whether it is empty or not
FieldsOfAnyText(text, delim) ==
  IF delim = "whitespace" THEN splitOnWhitespace(text)
  ELSE CsvParse(text, delim)

\* o.fields, in whitespace mode and in delimiter mode
FieldsOf(text, delim) ==
  IF delim = "whitespace"
  THEN IF text = <<>> THEN <<>> ELSE splitOnWhitespace(text)
  ELSE IF text = <<>> THEN <<>> ELSE CsvParse(text, delim)

NoRecord == [text |-> <<>>, fields |-> <<>>, recordIndex |-> -1]

FldIdle ==
  /\ delimiter = "\t"
  /\ fsCount = 0
  /\ fsRecord = NoRecord

FldInit ==
  /\ delimiter \in Delimiters
  /\ fsCount = 0
  /\ fsRecord = NoRecord

\* a record comes out of lineStream and goes through fieldStream's dotos
FieldStreamRecord ==
  /\ fsCount < MaxRecords
  /\ \E text \in SeqsUpTo(TextAlphabet, MaxText) :
       fsRecord' = [text |-> text,
                    fields |-> FieldsOf(text, delimiter),
                    recordIndex |-> fsCount]
  /\ fsCount' = fsCount + 1
  /\ UNCHANGED <<delimiter, ordVars, twoVars, boundaryVars,
                 lineVars, encVars, pipeVars, validationVars>>

FldNext == FieldStreamRecord

(***************************************************************************)
(* validateMeasurement: measurementRegex.exec(measurement), with           *)
(*   measurementRegex = /^[a-zA-Z0-9-_]+$/                                 *)
(* A name is a sequence of characters.                                     *)
(***************************************************************************)
MaxName == 3
NameAlphabet == {"A", "b", "7", "-", "_", " ", ";", NL}

\* [a-zA-Z0-9-_]: three ranges, then the characters - and _
InClass(c) ==
  \/ \E i \in 1..Len(LowerCaseLetters) : c = LowerCaseLetters[i]
  \/ \E i \in 1..Len(UpperCaseLetters) : c = UpperCaseLetters[i]
  \/ c \in Digits
  \/ c \in {"-", "_"}

NoMatch == [null |-> TRUE, match |-> <<>>]
Match(text) == [null |-> FALSE, match |-> text]

\* mutant: the class may be repeated zero times
ExecStar(name) ==
  IF \A i \in 1..Len(name) : InClass(name[i]) THEN Match(name) ELSE NoMatch

\* measurementRegex.exec: the whole name is one or more characters of the
\* class; $ is the end of the name, not a place before a line terminator
Exec(name) ==
  IF Len(name) >= 1 /\ \A i \in 1..Len(name) : InClass(name[i])
  THEN Match(name)
  ELSE NoMatch

MeasIdle ==
  /\ mName = <<>>
  /\ mPhase = "idle"
  /\ mResult = NoMatch

MeasInit ==
  /\ mName \in SeqsUpTo(NameAlphabet, MaxName)
  /\ mPhase = "init"
  /\ mResult = NoMatch

validateMeasurement ==
  /\ mPhase = "init"
  /\ mPhase' = "returned"
  /\ mResult' = Exec(mName)
  /\ UNCHANGED <<mName, headerVars, sinkVars, ordVars, twoVars, fldVars,
                 lineVars, encVars, pipeVars, validationVars>>

MeasNext == validateMeasurement

(***************************************************************************)
(* The header of a standard file. getStandardHeader keeps, for each of the *)
(* first seven lines that fieldStream emits, the record of the line under  *)
(* the key of its lineIndex; validateStandardHeader takes the data of each *)
(* line and throws or returns the header; parseStandardBody then writes.   *)
(* A line is the list of its fields, a field a sequence of characters.     *)
(***************************************************************************)
\* headerKeys, in the order of _.keys(header)
HeaderKeyOrder ==
  <<"measurement", "cruise", "description", "columnDescriptions", "types",
    "units", "headers">>
HeaderKeys == {HeaderKeyOrder[i] : i \in 1..Len(HeaderKeyOrder)}
\* the lines of which the first field is the data
SingleKeys == {"measurement", "cruise", "description"}

\* rawheader[k].record: undefined, or a record with its fields
NoLine == [present |-> FALSE, fields |-> <<>>]
Line(fields) == [present |-> TRUE, fields |-> fields]

SomeText == <<"x">>
UpperTimeType == <<"T", "I", "M", "E">>

SingleLines == {NoLine, Line(<<>>), Line(<<<<>>>>), Line(<<SomeText>>)}
ColumnLines ==
  {NoLine, Line(<<>>), Line(<<SomeText>>),
   Line(<<SomeText, SomeText>>), Line(<<SomeText, <<>>>>)}
TypeLines ==
  {NoLine, Line(<<>>), Line(<<TimeType>>), Line(<<UpperTimeType>>),
   Line(<<FloatType>>), Line(<<TimeType, FloatType>>)}
HeaderLines ==
  {NoLine, Line(<<>>), Line(<<TimeType>>), Line(<<SomeText>>),
   Line(<<TimeType, SomeText>>), Line(<<TimeType, NA>>),
   Line(<<TimeType, <<>>>>)}

\* header[k].data: kind "none" while undefined, the first field of a
\* single line that has fields, all the fields of a line of columns
Data(h, k) ==
  IF ~h[k].present THEN [kind |-> "none", text |-> <<>>, list |-> <<>>]
  ELSE IF k \in SingleKeys
       THEN IF Len(h[k].fields) > 0
            THEN [kind |-> "text", text |-> h[k].fields[1], list |-> <<>>]
            ELSE [kind |-> "none", text |-> <<>>, list |-> <<>>]
       ELSE [kind |-> "list", text |-> <<>>, list |-> h[k].fields]

\* .filter(k => (!header[k].data || !header[k].data.length))
Empties(h) ==
  {k \in HeaderKeys :
     LET d == Data(h, k) IN
       \/ d.kind = "none"
       \/ d.kind = "text" /\ Len(d.text) = 0
       \/ d.kind = "list" /\ Len(d.list) = 0}

\* _.keys(header).filter(k => _.isArray(header[k].data))
Columnar(h) == {k \in HeaderKeys : Data(h, k).kind = "list"}

\* if (column === '')
EmptyColumn(h) ==
  \E k \in Columnar(h) :
    \E i \in 1..Len(Data(h, k).list) : Data(h, k).list[i] = <<>>

\* mutant: the lines of columns may differ in length
UnequalColumnsAllowed(h) == FALSE

\* _.uniq(fieldLengths).length > 1
UnequalColumns(h) ==
  Cardinality({Len(Data(h, k).list) : k \in Columnar(h)}) > 1

NoHeaderError == [name |-> "none", msg |-> "none"]
HeaderError(msg) == [name |-> "TimeSeriesCopError", msg |-> msg]

\* validateStandardHeader: the error thrown, or NoHeaderError when the
\* header is returned
ValidateStandardHeader(h) ==
  IF Empties(h) # {} THEN HeaderError("Incomplete header section(s)")
  ELSE IF EmptyColumn(h) THEN HeaderError("has an empty column")
  ELSE IF UnequalColumns(h)
       THEN HeaderError("must have the same column numbers")
  ELSE IF \E i \in 1..Len(Data(h, "headers").list) :
            Data(h, "headers").list[i] = NA
       THEN HeaderError("'NA' is not a valid column header")
  ELSE IF Data(h, "headers").list[1] # TimeType
       THEN HeaderError("The first headers value should be 'time'")
  ELSE IF ToLowerCase(Data(h, "types").list[1]) # TimeType
       THEN HeaderError("The first type value should be 'time'")
  ELSE NoHeaderError

HdrIdle ==
  /\ hRaw = [k \in HeaderKeys |-> NoLine]
  /\ hPhase = "idle"
  /\ hThrown = NoHeaderError
  /\ hLines = 0

HdrInit ==
  /\ hRaw \in {h \in [HeaderKeys -> SingleLines \cup ColumnLines
                                      \cup TypeLines \cup HeaderLines] :
                 /\ \A k \in SingleKeys : h[k] \in SingleLines
                 /\ h["columnDescriptions"] \in ColumnLines
                 /\ h["units"] \in ColumnLines
                 /\ h["types"] \in TypeLines
                 /\ h["headers"] \in HeaderLines}
  /\ hPhase = "init"
  /\ hThrown = NoHeaderError
  /\ hLines = 0

\* parseStandardFile, up to the call of parseStandardBody: the promise is
\* rejected with what validateStandardHeader threw, or the body is parsed
\* with the header
ParseStandardFile ==
  /\ hPhase = "init"
  /\ LET e == ValidateStandardHeader(hRaw) IN
       /\ hThrown' = e
       /\ hPhase' = IF e = NoHeaderError THEN "accepted" ELSE "rejected"
  /\ UNCHANGED <<hRaw, hLines, measVars, sinkVars, ordVars, twoVars,
                 fldVars, lineVars, encVars, pipeVars, validationVars>>

\* parseStandardBody writes the line of a record to the output
ParseStandardBody ==
  /\ hPhase = "accepted"
  /\ hLines < MaxRecords
  /\ hLines' = hLines + 1
  /\ UNCHANGED <<hRaw, hPhase, hThrown, measVars, sinkVars, ordVars,
                 twoVars, fldVars, lineVars, encVars, pipeVars,
                 validationVars>>

HdrNext == ParseStandardFile \/ ParseStandardBody

(***************************************************************************)
(* The calls writeDocToInfluxDB makes for the batches it is handed:        *)
(*   ping().then(hosts online?).then(writePoints)[.then(query)]            *)
(* in a stream made of the promise, inside flatMap, which takes the next   *)
(* batch when the stream of the batch before has ended.                    *)
(***************************************************************************)
MaxSinkBatches == 3
WindowSizes == {0, 3}

Called(k, op) == [batch |-> k, op |-> op, ev |-> "call"]
Completed(k, op, res) == [batch |-> k, op |-> op, ev |-> res]

\* what a ping comes to: the promise is rejected; a host is not online;
\* every host is online
PingResults == {"failed", "offline", "ok"}

\* mutant: a host that is not online is not looked at
PingSucceededUnchecked(res) == res # "failed"

\* hosts.forEach(host => { if (!host.online) reject(...) }); resolve();
PingSucceeded(res) == res = "ok"

\* if (windowSize)
Downsamples(w) == w # 0

SinkIdle ==
  /\ kWindow = 3
  /\ kStops = TRUE
  /\ kBatch = 0
  /\ kPhase = "none"
  /\ kLog = <<>>
  /\ kErrors = <<>>
  /\ kEnded = TRUE

SinkInit ==
  /\ kWindow \in WindowSizes
  /\ kStops \in BOOLEAN
  /\ kBatch = 0
  /\ kPhase = "none"
  /\ kLog = <<>>
  /\ kErrors = <<>>
  /\ kEnded = FALSE

\* the promise of the batch is rejected: the error goes down the stream,
\* and stopOnError, where the pipeline has it, ends the stream
SinkFails ==
  /\ kErrors' = Append(kErrors, kBatch)
  /\ kPhase' = "none"
  /\ kEnded' = kStops

\* flatMap hands over the next batch: influx.ping(5000)
NextBatch ==
  /\ ~kEnded
  /\ kPhase = "none"
  /\ kBatch < MaxSinkBatches
  /\ kBatch' = kBatch + 1
  /\ kLog' = Append(kLog, Called(kBatch + 1, "ping"))
  /\ kPhase' = "ping"
  /\ UNCHANGED <<kWindow, kStops, kErrors, kEnded, measVars, headerVars,
                 ordVars, twoVars, fldVars, lineVars, encVars, pipeVars,
                 validationVars>>

\* the ping is over: writePoints is called if every host is online
PingReturns ==
  /\ kPhase = "ping"
  /\ \E res \in PingResults :
       IF PingSucceeded(res)
       THEN /\ kLog' = kLog \o <<Completed(kBatch, "ping", res),
                                 Called(kBatch, "writePoints")>>
            /\ kPhase' = "write"
            /\ UNCHANGED <<kErrors, kEnded>>
       ELSE /\ kLog' = Append(kLog, Completed(kBatch, "ping", res))
            /\ SinkFails
  /\ UNCHANGED <<kWindow, kStops, kBatch, measVars, headerVars,
                 ordVars, twoVars, fldVars, lineVars, encVars, pipeVars,
                 validationVars>>

\* writePoints is over: the downsampling query is made if windowSize
WriteReturns ==
  /\ kPhase = "write"
  /\ \E res \in {"ok", "failed"} :
       IF res = "ok"
       THEN /\ IF Downsamples(kWindow)
               THEN /\ kLog' = kLog \o <<Completed(kBatch, "writePoints", res),
                                         Called(kBatch, "query")>>
                    /\ kPhase' = "query"
               ELSE /\ kLog' = Append(kLog,
                                      Completed(kBatch, "writePoints", res))
                    /\ kPhase' = "none"
            /\ UNCHANGED <<kErrors, kEnded>>
       ELSE /\ kLog' = Append(kLog, Completed(kBatch, "writePoints", res))
            /\ SinkFails
  /\ UNCHANGED <<kWindow, kStops, kBatch, measVars, headerVars,
                 ordVars, twoVars, fldVars, lineVars, encVars, pipeVars,
                 validationVars>>

\* the query is over
QueryReturns ==
  /\ kPhase = "query"
  /\ \E res \in {"ok", "failed"} :
       /\ kLog' = Append(kLog, Completed(kBatch, "query", res))
       /\ IF res = "ok"
          THEN kPhase' = "none" /\ UNCHANGED <<kErrors, kEnded>>
          ELSE SinkFails
  /\ UNCHANGED <<kWindow, kStops, kBatch, measVars, headerVars,
                 ordVars, twoVars, fldVars, lineVars, encVars, pipeVars,
                 validationVars>>

\* there is no more batch
BatchesEnd ==
  /\ ~kEnded
  /\ kPhase = "none"
  /\ kEnded' = TRUE
  /\ UNCHANGED <<kWindow, kStops, kBatch, kPhase, kLog, kErrors, measVars,
                 headerVars, ordVars, twoVars, fldVars, lineVars, encVars,
                 pipeVars, validationVars>>

SinkNext ==
  NextBatch \/ PingReturns \/ WriteReturns \/ QueryReturns \/ BatchesEnd

BoundaryIdle == MeasIdle /\ HdrIdle /\ SinkIdle

(***************************************************************************)
(* A typed document at some place of a stream: writeDocToLineProtocol has  *)
(* the time of the previous record in prevtime, prepDocForInfluxDB keeps   *)
(* nothing from one record to the next.                                    *)
(***************************************************************************)
\* the values validateDoc leaves in a document: strings that are not
\* empty, times, null; a column without a value has no key
TypedDocValues == {Absent, Null, Str("a"), Num(1)}

\* the time of the record before: none, an earlier one, a later one
PreviousTimes == {Null, Num(0), Num(2)}

StreamEncInit ==
  /\ schema \in [Keys -> Types \cup {NoType}]
  /\ doc \in [Keys -> TypedDocValues]
  /\ lineIndex = 1
  /\ encPhase = "init"
  /\ encResult = NoResult
  /\ prevtime \in PreviousTimes
  /\ ensureSorted \in BOOLEAN

\* the document goes through a writeDocToLineProtocol that has mapped the
\* records before it
EncodeAfterPrevious ==
  /\ encPhase = "init"
  /\ encPhase' = "lp"
  /\ LET r == LineProtocolRecord(EncInput, schema, prevtime, ensureSorted) IN
       /\ encResult' = r
       /\ prevtime' = IF r.kind = "record"
                      THEN ToNumber(TimeOf(doc, schema, 1, Undefined))
                      ELSE prevtime
  /\ UNCHANGED <<schema, doc, lineIndex, path, ensureSorted, stops,
                 batchSize, nextLine, count, batch, outstream, writes,
                 error, pipeEnded, message, lastIn, lastOut,
                 lineVars, validationVars, stageVars>>

StreamEncNext == EncodeAfterPrevious \/ PrepareForInfluxDB

StageIdle == OrdIdle /\ TwoIdle /\ FldIdle /\ BoundaryIdle

(***************************************************************************)
(* The specifications.                                                     *)
(***************************************************************************)
LinesInit ==
  LinesStart /\ EncIdle /\ PipeIdle /\ ValidationIdle /\ StageIdle
LinesSpec == LinesInit /\ [][LinesNext]_vars

EncSpecInit ==
  EncInit /\ LinesIdle /\ PipeIdle /\ ValidationIdle /\ StageIdle
EncSpec == EncSpecInit /\ [][EncNext]_vars

Init == PipeInit /\ LinesIdle /\ EncIdle /\ ValidationIdle /\ StageIdle
Spec == Init /\ [][Next]_vars

ValSpecInit ==
  /\ ValInit /\ F2dIdle /\ SchIdle
  /\ LinesIdle /\ EncIdle /\ PipeIdle /\ StageIdle
ValSpec == ValSpecInit /\ [][ValNext]_vars

F2dSpecInit ==
  /\ F2dInit /\ ValIdle /\ SchIdle
  /\ LinesIdle /\ EncIdle /\ PipeIdle /\ StageIdle
F2dSpec == F2dSpecInit /\ [][F2dNext]_vars

SchSpecInit ==
  /\ SchInit /\ ValIdle /\ F2dIdle
  /\ LinesIdle /\ EncIdle /\ PipeIdle /\ StageIdle
SchSpec == SchSpecInit /\ [][SchNext]_vars

OrdSpecInit ==
  /\ OrdInit /\ TwoIdle /\ FldIdle /\ BoundaryIdle
  /\ LinesIdle /\ PipeIdle /\ ValidationIdle
OrdSpec == OrdSpecInit /\ [][OrdNext]_vars

\* the two instances are made with the same options, any of the four
TwoSpecInit ==
  /\ TwoInit /\ OrdIdle /\ FldIdle /\ BoundaryIdle
  /\ input = <<>>
  /\ start = 0
  /\ end = Infinity
  /\ dropInternalBlank \in BOOLEAN
  /\ dropFinalBlank \in BOOLEAN
  /\ lsI = 0
  /\ sliceIndex = 0
  /\ blankBuffer = <<>>
  /\ fsI = 0
  /\ out = <<>>
  /\ ended = TRUE
  /\ EncIdle /\ PipeIdle /\ ValidationIdle
TwoSpec == TwoSpecInit /\ [][TwoNext]_vars

FldSpecInit ==
  /\ FldInit /\ OrdIdle /\ TwoIdle /\ BoundaryIdle
  /\ LinesIdle /\ EncIdle /\ PipeIdle /\ ValidationIdle
FldSpec == FldSpecInit /\ [][FldNext]_vars

StreamEncSpecInit ==
  /\ StreamEncInit
  /\ path = "lp"
  /\ stops = TRUE
  /\ batchSize = 1
  /\ nextLine = 0
  /\ count = 0
  /\ batch = <<>>
  /\ outstream = <<>>
  /\ writes = <<>>
  /\ error = NoResult
  /\ pipeEnded = TRUE
  /\ message = "none"
  /\ lastIn = NoResult
  /\ lastOut = NoResult
  /\ LinesIdle /\ ValidationIdle /\ StageIdle
StreamEncSpec == StreamEncSpecInit /\ [][StreamEncNext]_vars

BaseIdle ==
  /\ LinesIdle /\ EncIdle /\ PipeIdle /\ ValidationIdle
  /\ OrdIdle /\ TwoIdle /\ FldIdle

MeasSpecInit == MeasInit /\ HdrIdle /\ SinkIdle /\ BaseIdle
MeasSpec == MeasSpecInit /\ [][MeasNext]_vars

HdrSpecInit == HdrInit /\ MeasIdle /\ SinkIdle /\ BaseIdle
HdrSpec == HdrSpecInit /\ [][HdrNext]_vars

SinkSpecInit == SinkInit /\ MeasIdle /\ HdrIdle /\ BaseIdle
SinkSpec == SinkSpecInit /\ [][SinkNext]_vars

(***************************************************************************)
(* Vocabulary of the tokenizer's properties: the window and the kinds of   *)
(* blank line in it.                                                       *)
(***************************************************************************)
NumLines == Len(lines)
InWindow(k) == k \in 0..(NumLines - 1) /\ start <= k /\ k < end
IsBlank(k) == lines[k + 1] = <<>>
NonBlankBefore(k) == \E p \in 0..(NumLines - 1) : p < k /\ InWindow(p) /\ ~IsBlank(p)
NonBlankAfter(k) == \E q \in 0..(NumLines - 1) : q > k /\ InWindow(q) /\ ~IsBlank(q)
\* a blank line strictly between two non-blank lines of the window
InternalBlank(k) == InWindow(k) /\ IsBlank(k) /\ NonBlankBefore(k) /\ NonBlankAfter(k)
\* a blank line of the window that follows its last non-blank line
FinalBlank(k) == InWindow(k) /\ IsBlank(k) /\ ~NonBlankAfter(k)
\* the empty line the splitter makes of what follows a trailing terminator
Synthetic(k) == Len(input) > 0 /\ input[Len(input)] = NL /\ k = NumLines - 1
EmittedIndexes == {out[k].lineIndex : k \in 1..Len(out)}

(***************************************************************************)
(* Properties of the encoders and of the pipeline.                         *)
(***************************************************************************)
\* the document holds nothing under the schema's field-typed keys
NoFieldValue ==
  \A k \in Keys :
    schema[k] \in {"text", "integer", "float", "boolean"}
      => doc[k] \in {Absent, Null, Undefined}

\* the document holds no time: nothing, null or undefined under every key
\* of type time
NoTimeValue ==
  \A k \in Keys : schema[k] = "time" => doc[k] \in {Absent, Null, Undefined}

\* C1: every record either encoder produces has a non-empty field set;
\* influxMissingData=true is in it exactly when no key of the document gave
\* a field, it is then the only field, and it is the whole field set of a
\* document populated only under time and category keys
C1_MissingDataField ==
  encResult.kind = "record" =>
    LET f == encResult.fields IN
      /\ DOMAIN f # {}
      /\ (MissingDataField \in DOMAIN f) <=> (DOMAIN f \cap Keys = {})
      /\ (MissingDataField \in DOMAIN f) => f = (MissingDataField :> True)
      /\ NoFieldValue => f = (MissingDataField :> True)

\* C1 witness: the line-protocol encoder made a record with a tag and the
\* missing-data field alone, of a document whose text value is empty
C1_Witness ==
  /\ encPhase = "lp"
  /\ encResult.kind = "record"
  /\ encResult.fields = (MissingDataField :> True)
  /\ DOMAIN encResult.tags # {}
  /\ \E k \in Keys : schema[k] = "text" /\ doc[k] = Str("")

PrevEncoded ==
  LET n == Len(outstream) IN
    IF lastOut.kind = "record"
    THEN IF n >= 2 THEN outstream[n - 1].ts ELSE Null
    ELSE IF n >= 1 THEN outstream[n].ts ELSE Null

\* C2: writeDocToLineProtocol raises the ordering error for a record if and
\* only if ensureSorted is true and the record's time is strictly less than
\* that of the previously encoded record; so with ensureSorted=true the
\* timestamps of the lines written to outstream never decrease
C2_OrderingError ==
  path = "lp" =>
    /\ lastIn # NoResult =>
         ((lastOut.kind = "error"
             /\ lastOut.msg = "records not in ascending chronological order")
          <=> (/\ ensureSorted
               /\ lastIn["k1"] # Absent
               /\ PrevEncoded # Null
               /\ lastIn["k1"].n * NanosPerMilli < PrevEncoded.n))
    /\ ensureSorted =>
         \A i, j \in 1..Len(outstream) :
           i < j => outstream[i].ts.n <= outstream[j].ts.n

\* C2 witness: two records of equal time were written and a third, earlier
\* one was refused
C2_Witness ==
  /\ path = "lp"
  /\ ensureSorted
  /\ Len(outstream) = 2
  /\ outstream[1].ts = outstream[2].ts
  /\ lastOut.kind = "error"
  /\ lastOut.msg = "records not in ascending chronological order"

IsPrefix(a, b) == Len(a) <= Len(b) /\ SubSeq(b, 1, Len(a)) = a

\* C4: in a pipeline ended by stopOnError, once an error was raised for the
\* record of a line nothing more is written, no record of a later line is
\* ever written, and what was written before stays written
C4_StopAtFirstError ==
  [][stops =>
       /\ IsPrefix(outstream, outstream')
       /\ IsPrefix(writes, writes')
       /\ error # NoResult => (outstream' = outstream /\ writes' = writes)
       /\ error' # NoResult =>
            \A i \in 1..Len(outstream') : outstream'[i].line < error'.line - 1
       /\ error' # NoResult =>
            \A i \in 1..Len(writes') : \A j \in 1..Len(writes'[i]) :
              writes'[i][j].line < error'.line - 1]_vars

\* C4 witness: a validation error stopped a pipeline that had written a
\* line and had more to come
C4_Witness ==
  /\ stops
  /\ pipeEnded
  /\ error # NoResult
  /\ error.msg = "validation"
  /\ Len(outstream) >= 1
  /\ nextLine < MaxItems

\* C5: the recordIndex values of the records fieldStream emits are exactly
\* 0, 1, 2, ... in emission order, whatever was dropped or outside the window
C5_RecordIndexContiguous ==
  \A k \in 1..Len(out) : out[k].recordIndex = k - 1

\* C5 witness: two records were emitted around a dropped line, past a
\* skipped start of the stream
C5_Witness ==
  /\ Len(out) >= 2
  /\ start > 0
  /\ out[2].lineIndex > out[1].lineIndex + 1

\* C6: the lineIndex of every emitted line is its ordinal among all physical
\* lines of the stream, and only lines with start <= lineIndex < end are
\* emitted
C6_LineIndexIsOrdinal ==
  \A k \in 1..Len(out) :
    /\ out[k].lineIndex \in 0..(NumLines - 1)
    /\ out[k].text = lines[out[k].lineIndex + 1]
    /\ start <= out[k].lineIndex
    /\ out[k].lineIndex < end

\* C6 witness: a line was emitted from a window that starts after the first
\* line and ends before the last one
C6_Witness ==
  /\ ended
  /\ start > 0
  /\ end < NumLines
  /\ Len(out) >= 1
  /\ out[1].lineIndex = start

\* C7: a blank line between two non-blank lines of the window is emitted if
\* and only if dropInternalBlank=false, and the emitted lines keep their
\* lineIndex and their original order
C7_InternalBlanks ==
  /\ \A j, k \in 1..Len(out) : j < k => out[j].lineIndex < out[k].lineIndex
  /\ \A k \in 1..Len(out) : out[k].text = lines[out[k].lineIndex + 1]
  /\ ended =>
       \A b \in 0..(NumLines - 1) :
         InternalBlank(b) => ((b \in EmittedIndexes) <=> ~dropInternalBlank)

\* C7 witness: a run of two internal blank lines was emitted between its
\* neighbours
C7_Witness ==
  /\ ended
  /\ ~dropInternalBlank
  /\ \E b \in 0..(NumLines - 1) :
       /\ InternalBlank(b) /\ InternalBlank(b + 1)
       /\ {b - 1, b, b + 1, b + 2} \subseteq EmittedIndexes

\* C8: with dropFinalBlank=true no blank line after the last non-blank line
\* of the window is emitted, whatever dropInternalBlank is
C8_FinalBlanksDropped ==
  dropFinalBlank =>
    \A b \in 0..(NumLines - 1) : FinalBlank(b) => b \notin EmittedIndexes

\* C8 witness: the stream ended after a non-blank line and two real final
\* blank lines, with internal blank lines kept
C8_Witness ==
  /\ ended
  /\ dropFinalBlank
  /\ ~dropInternalBlank
  /\ Len(out) >= 1
  /\ \E b \in 0..(NumLines - 1) :
       FinalBlank(b) /\ FinalBlank(b + 1) /\ ~Synthetic(b + 1)

\* C9: with dropFinalBlank=false every blank line of the window after the
\* last non-blank line is emitted, except the synthetic empty line of a
\* trailing terminator; a real blank line is never withheld
C9_FinalBlanksKept ==
  (ended /\ ~dropFinalBlank) =>
    \A b \in 0..(NumLines - 1) :
      (FinalBlank(b) /\ ~Synthetic(b)) => b \in EmittedIndexes

\* C10: with dropInternalBlank=true only blank lines strictly between two
\* non-blank lines of the window are discarded; with dropFinalBlank=false
\* every other blank line of the window is emitted (all but the synthetic
\* line of a trailing terminator). Stated for windows that end does not cut,
\* where the line withheld at end-of-stream is the synthetic one.
C10_OnlyInternalDiscarded ==
  (ended /\ dropInternalBlank /\ ~dropFinalBlank /\ end = Infinity) =>
    \A b \in 0..(NumLines - 1) :
      (InWindow(b) /\ IsBlank(b) /\ ~InternalBlank(b) /\ ~Synthetic(b))
        => b \in EmittedIndexes

(***************************************************************************)
(* Properties of validateDoc and the validators.                           *)
(***************************************************************************)
\* validateDoc has processed the record and nothing downstream has yet
Validated == vPhase = "validated"

\* the column has a string in the raw document and a type in the schema
HasTypedValue(k) == raw[k].kind = "string" /\ vSchema[k] # NoType

\* the value of the column the validator is given
Trimmed(k) == Trim(raw[k].chars)

\* the typed document
Typed == heap[oDoc]

\* the place of a column in the order the columns are validated
Place(k) == CHOOSE i \in 1..Len(ColumnOrder) : ColumnOrder[i] = k

\* the failures of strict mode by kind: an empty value of any type, a
\* malformed float or integer, an invalid boolean, an invalid time
ListedFailure(k) ==
  \/ Trimmed(k) = <<>>
  \/ vSchema[k] = "float" /\ ~IsFloat(Trimmed(k)) /\ ~IsMissing(Trimmed(k))
  \/ vSchema[k] = "integer" /\ ~IsInt(Trimmed(k)) /\ ~IsMissing(Trimmed(k))
  \/ /\ vSchema[k] = "boolean"
     /\ ToUpperCase(Trimmed(k)) \notin {TrueText, FalseText}
     /\ ~IsMissing(Trimmed(k))
     /\ ~IsMissing(ToUpperCase(Trimmed(k)))
  \/ vSchema[k] = "time" /\ ~IsISO8601(Trimmed(k))

\* the strict validator of the column's type refuses the value
StrictRefuses(k) ==
  HasTypedValue(k) /\ Validate(TRUE, vSchema[k], Trimmed(k)).error # NoError

\* C11: in strict mode every listed kind of failure is refused, and the
\* first refused value of a record raises a TimeSeriesCopError carrying the
\* 1-based line number, the column, the raw value and the type; the record
\* is passed downstream only when no value is refused
C11_StrictErrors ==
  (vStrict /\ Validated) =>
    LET refused == {k \in Columns : StrictRefuses(k)} IN
      /\ \A k \in Columns : (HasTypedValue(k) /\ ListedFailure(k))
                               => k \in refused
      /\ refused = {} => vResult.kind = "record"
      /\ refused # {} =>
           LET k == CHOOSE c \in refused :
                      \A d \in refused : Place(c) <= Place(d)
           IN /\ vResult.kind = "error"
              /\ vResult.name = "TimeSeriesCopError"
              /\ vResult.line = vLine + 1
              /\ vResult.column = k
              /\ vResult.value = raw[k]
              /\ vResult.type = vSchema[k]

\* C11 witness: on line 2 the first column passed strict validation and the
\* second, a blank string, was refused
C11_Witness ==
  /\ vStrict
  /\ Validated
  /\ vLine = 1
  /\ HasTypedValue("c1")
  /\ raw["c2"] = StringV(<<" ">>)
  /\ vResult.kind = "error"
  /\ vResult.column = "c2"
  /\ vResult.line = 2

\* C12: in lax mode a record whose values are of columns typed text,
\* category, float, integer or boolean raises no error; it is passed
\* downstream, with null for every value its type's validation refuses
C12_LaxNoError ==
  (/\ ~vStrict
   /\ Validated
   /\ \A k \in Columns :
        HasTypedValue(k) =>
          vSchema[k] \in {"text", "category", "float", "integer", "boolean"})
    => /\ vResult.kind = "record"
       /\ \A k \in Columns :
            HasTypedValue(k) =>
              /\ Typed[k] # AbsentV
              /\ StrictRefuses(k) => Typed[k] = NullV

C14_MissingInStrict ==
  (/\ vStrict
   /\ Validated
   /\ \A k \in Columns :
        HasTypedValue(k) =>
          /\ vSchema[k] \in {"text", "category", "float", "integer", "boolean"}
          /\ raw[k].chars \in {NA, NaNText})
    => /\ vResult.kind = "record"
       /\ \A k \in Columns : HasTypedValue(k) => Typed[k] = NullV

\* C15: in lax mode the raw value 'NA' of a column typed text, category,
\* float or integer becomes null in the typed document
C15_MissingInLax ==
  (/\ ~vStrict
   /\ Validated
   /\ \A k \in Columns :
        HasTypedValue(k) =>
          vSchema[k] \in {"text", "category", "float", "integer"})
    => /\ vResult.kind = "record"
       /\ \A k \in Columns :
            (HasTypedValue(k) /\ raw[k].chars = NA) => Typed[k] = NullV

\* the value of the column has been through its validator
Reached(k) ==
  HasTypedValue(k)
    /\ (vResult.kind = "error" => Place(k) <= Place(vResult.column))

\* C16: strict boolean validation gives the uppercase form of a value when
\* that form is TRUE or FALSE, and only then a value; any other value
\* gives null, and is then a spelling of the missing sentinel, or an error
C16_StrictBoolean ==
  (vStrict /\ Validated) =>
    \A k \in Columns :
      (Reached(k) /\ vSchema[k] = "boolean") =>
        LET upper == ToUpperCase(Trimmed(k)) IN
          IF upper \in {TrueText, FalseText}
          THEN Typed[k] = StringV(upper)
          ELSE \/ Typed[k] = NullV /\ upper \in {NA, ToUpperCase(NaNText)}
               \/ /\ Typed[k] = AbsentV
                  /\ vResult.kind = "error"
                  /\ vResult.column = k

\* C16 witness: 'true' was accepted as TRUE and 'x' was refused
C16_Witness ==
  /\ vStrict
  /\ Validated
  /\ vSchema = [k \in Columns |-> "boolean"]
  /\ raw["c1"] = StringV(<<"t", "r", "u", "e">>)
  /\ Typed["c1"] = StringV(TrueText)
  /\ raw["c2"] = StringV(<<"x">>)
  /\ vResult.kind = "error"

\* C17: the keys of a typed document validateDoc passes downstream are
\* keys of the raw document that are keys of the schema: a raw key the
\* schema lacks is dropped and a schema key the raw document lacks is not
\* added
C17_TypedKeys ==
  (Validated /\ vResult.kind = "record") =>
    /\ {k \in Columns : Typed[k] # AbsentV}
         \subseteq {k \in Columns : raw[k] # AbsentV /\ vSchema[k] # NoType}
    /\ \A k \in Columns : vSchema[k] = NoType => Typed[k] = AbsentV
    /\ \A k \in Columns : raw[k] = AbsentV => Typed[k] = AbsentV

\* C17 witness: the raw document has a key the schema lacks, the schema a
\* key the raw document lacks, and the typed document is empty
C17_Witness ==
  /\ Validated
  /\ vResult.kind = "record"
  /\ raw["c1"].kind = "string"
  /\ vSchema["c1"] = NoType
  /\ raw["c2"] = AbsentV
  /\ vSchema["c2"] = "float"
  /\ Typed = [k \in Columns |-> AbsentV]

\* C18: once validateDoc has processed a record, origDoc is the raw
\* document with every key and value as it was, and is another object
\* than doc: a write to doc downstream leaves origDoc as it was
C18_OrigDocKept ==
  vPhase \in {"validated", "written"} =>
    /\ oOrigDoc # oDoc
    /\ heap[oOrigDoc] = raw

\* C18 witness: downstream wrote into doc a key the raw document has
C18_Witness ==
  /\ vPhase = "written"
  /\ \E k \in Columns :
       /\ raw[k].kind = "string"
       /\ Typed[k] = StringV(<<"x", "x">>)
       /\ heap[oOrigDoc][k] = raw[k]

(***************************************************************************)
(* Properties of fieldsToDoc and of validateSchema.                        *)
(***************************************************************************)
\* the record has as many fields as there are headers
CountMatches(o) == Len(o.fields) = Len(headers)

IsRecord(r) == r.kind = "record"

\* C19: fieldsToDoc passes a record downstream, with doc the headers
\* zipped with its fields, if and only if it has as many fields as there
\* are headers, and passes these records as they came and in their order;
\* a record of another field count raises an error with its 1-based line
\* number in strict mode, and leaves no trace in permissive mode
C19_FieldsToDoc ==
  LET records == SelectSeq(fOut, IsRecord) IN
    /\ [i \in 1..Len(records) |->
          [fields |-> records[i].fields, lineIndex |-> records[i].lineIndex]]
         = SelectSeq(fIn, CountMatches)
    /\ \A i \in 1..Len(records) :
         /\ DOMAIN records[i].doc = {headers[j] : j \in 1..Len(headers)}
         /\ \A j \in 1..Len(headers) :
              (\A l \in (j + 1)..Len(headers) : headers[l] # headers[j])
                => records[i].doc[headers[j]] = records[i].fields[j]
    /\ fStrict =>
         /\ Len(fOut) = Len(fIn)
         /\ \A i \in 1..Len(fIn) :
              ~CountMatches(fIn[i]) =>
                /\ fOut[i].kind = "error"
                /\ fOut[i].line = fIn[i].lineIndex + 1
    /\ ~fStrict => \A i \in 1..Len(fOut) : fOut[i].kind = "record"

\* C19 witness: in permissive mode the second of three records had one
\* field for two headers and was dropped, the other two passed
C19_Witness ==
  /\ ~fStrict
  /\ headers = <<"h1", "h2">>
  /\ Len(fIn) = 3
  /\ fIn[2].fields = <<"a">>
  /\ Len(fOut) = 2
  /\ fOut[1].doc = [h \in {"h1", "h2"} |-> IF h = "h1" THEN "b" ELSE "a"]
  /\ fOut[2].lineIndex = fIn[3].lineIndex

\* C20: validateSchema returns error=null exactly when every value,
\* lowercased and trimmed, is a valid type; the schema returned is then a
\* new object with the same keys and the values lowercased and trimmed;
\* the argument is left as it was; and validateSchema applied to the
\* schema returned gives error=null and an equal mapping
C20_ValidateSchema ==
  sPhase \in {"validated", "revalidated"} =>
    LET normalized == [k \in DOMAIN sOriginal |->
                         Trim(ToLowerCase(sOriginal[k]))]
        allValid == \A k \in DOMAIN sOriginal : normalized[k] \in ValidTypes
    IN /\ sFirst.error.null <=> allValid
       /\ allValid => /\ sFirst.schema # sArg
                      /\ sHeap[sFirst.schema] = normalized
       /\ sHeap[sArg] = sOriginal
       /\ (sPhase = "revalidated" /\ allValid) =>
            /\ sReturned.error.null
            /\ sHeap[sReturned.schema] = normalized
            /\ sHeap[sFirst.schema] = normalized

\* C20 witness: a schema with types 'TeXt' and ' time ' was validated, and
\* the schema returned was validated again
C20_Witness ==
  /\ sPhase = "revalidated"
  /\ sOriginal = [k \in SchemaKeys |->
                    IF k = "p1" THEN <<"T", "e", "X", "t">>
                    ELSE <<" ">> \o TimeType \o <<" ">>]
  /\ sFirst.error.null
  /\ sHeap[sReturned.schema] = [k \in SchemaKeys |->
                                  IF k = "p1" THEN TextType ELSE TimeType]

(***************************************************************************)
(* Properties of schema validation at construction, of the records the     *)
(* encoders make, and of the batches written to the database.              *)
(***************************************************************************)
\* the keys of the schema whose value is no valid type, and the first
InvalidKeys ==
  {i \in 1..Len(SchemaKeyOrder) :
     /\ SchemaKeyOrder[i] \in DOMAIN sOriginal
     /\ Trim(ToLowerCase(sOriginal[SchemaKeyOrder[i]])) \notin ValidTypes}
FirstInvalid ==
  SchemaKeyOrder[CHOOSE i \in InvalidKeys : \A j \in InvalidKeys : i <= j]

\* C21: for a schema with an invalid type validateSchema returns as error
\* the first invalid value in key order, as it is written in the schema,
\* and as schema the argument itself, with its keys and values unchanged
C21_FirstInvalidType ==
  (sPhase \in {"validated", "revalidated"} /\ InvalidKeys # {}) =>
    /\ sFirst.error = [null |-> FALSE, text |-> sOriginal[FirstInvalid]]
    /\ sFirst.schema = sArg
    /\ sHeap[sArg] = sOriginal

\* C21 witness: the schema has 'TeXt', valid, and then 'Bad'
C21_Witness ==
  /\ sPhase = "validated"
  /\ sOriginal = [k \in SchemaKeys |->
                    IF k = "p1" THEN <<"T", "e", "X", "t">>
                    ELSE <<"B", "a", "d">>]
  /\ sFirst.error.text = <<"B", "a", "d">>

\* C22: a stage constructed with a schema that has an unrecognized type
\* throws a TimeSeriesCopError naming the first such type, and no record
\* ever goes through it
C22_FailFast ==
  (sPhase \in {"constructed", "refused"} /\ InvalidKeys # {}) =>
    /\ sPhase = "refused"
    /\ cThrown = [name |-> "TimeSeriesCopError",
                  tag |-> sOriginal[FirstInvalid]]
    /\ cRead = 0

\* C23: a key whose value is null, NaN or undefined gives neither a tag
\* nor a field to the record of either encoder
C23_NoValueNoEntry ==
  encResult.kind = "record" =>
    \A k \in Keys :
      doc[k] \in {Null, NaN, Undefined} =>
        (k \notin DOMAIN encResult.tags /\ k \notin DOMAIN encResult.fields)

\* C24: in a record of either encoder the tags are keys typed category,
\* the fields are keys typed text, integer, float or boolean (or the
\* missing-data field), the timestamp comes from a key typed time, and a
\* key without a type in the schema is nowhere
C24_KeysByType ==
  encResult.kind = "record" =>
    /\ \A k \in DOMAIN encResult.tags : schema[k] = "category"
    /\ \A k \in DOMAIN encResult.fields :
         k = MissingDataField
           \/ schema[k] \in {"text", "integer", "float", "boolean"}
    /\ \E k \in Keys :
         /\ schema[k] = "time"
         /\ encResult.ts = (IF encPhase = "lp"
                            THEN Times(ToNumber(doc[k]), NanosPerMilli)
                            ELSE ToNumber(doc[k]))
    /\ \A k \in Keys :
         schema[k] = NoType =>
           (k \notin DOMAIN encResult.tags
              /\ k \notin DOMAIN encResult.fields)

\* C24 witness: the database encoder made a record of a document with a
\* category, a time and a value under a key the schema does not have
C24_Witness ==
  /\ encPhase = "db"
  /\ encResult.kind = "record"
  /\ \E k \in Keys : schema[k] = "category" /\ k \in DOMAIN encResult.tags
  /\ \E k \in Keys : schema[k] = NoType /\ doc[k] = Str("a")

\* the place of a key in an order
PlaceIn(order, k) == CHOOSE i \in 1..Len(order) : order[i] = k

\* the keys of a list come in the order they have in order
Follows(list, order) ==
  \A i, j \in 1..Len(list) :
    i < j => PlaceIn(order, list[i]) < PlaceIn(order, list[j])

C26_Rendering ==
  (encPhase = "lp" /\ encResult.kind = "record") =>
    /\ \A k \in Keys :
         doc[k] # Absent =>
           /\ schema[k] = "integer" =>
                encResult.fields[k] = Str(ToStr(doc[k]) \o "i")
           /\ (schema[k] = "text" /\ doc[k] # Str("")) =>
                encResult.fields[k] = Val("quoted", ToStr(doc[k]), 0)
           /\ schema[k] \in {"float", "boolean"} =>
                encResult.fields[k] = doc[k]
           /\ (schema[k] = "time" /\ doc[k].kind = "number") =>
                encResult.ts = Num(doc[k].n * 1000 * 1000)

\* C26 witness: a record with an integer, a text and a time in
\* milliseconds
C26_Witness ==
  /\ encPhase = "lp"
  /\ encResult.kind = "record"
  /\ encResult.ts = Num(2000000)
  /\ \E k \in Keys : schema[k] = "integer" /\ encResult.fields[k] = Str("7i")
  /\ \E k \in Keys : schema[k] = "text" /\ doc[k] = Str("7")

\* the lines of the points of a batch
BatchLines(b) == {b[i].line : i \in 1..Len(b)}

\* C27: every batch writeDocToInfluxDB has written is the next run of
\* prepared points, in ascending order of timestamp; it holds batchSize
\* points, or fewer and at least one when it is the last batch of a run
\* that ended; and as long as no error was caught the batches and the
\* points still batched are every prepared point once
C27_Batches ==
  path = "db" =>
    /\ \A i \in 1..Len(writes) :
         LET b == writes[i] IN
           /\ \A p, q \in 1..Len(b) : p < q => b[p].ts.n <= b[q].ts.n
           /\ \A p, q \in 1..Len(b) : p # q => b[p].line # b[q].line
           /\ 1 <= Len(b) /\ Len(b) <= batchSize
           /\ Len(b) < batchSize => (i = Len(writes) /\ pipeEnded)
           /\ \A j \in 1..Len(writes) :
                i < j => \A x \in BatchLines(b), y \in BatchLines(writes[j]) :
                           x < y
           /\ error = NoResult =>
                BatchLines(b) =
                  {n \in 0..(nextLine - 1) :
                     (i - 1) * batchSize <= n /\ n < i * batchSize}
    /\ error = NoResult =>
         /\ BatchLines(batch) =
              {n \in 0..(nextLine - 1) : Len(writes) * batchSize <= n}
         /\ Len(batch) < batchSize
    /\ (error = NoResult /\ pipeEnded) => batch = <<>>

\* C27 witness: three points went through batches of two without error;
\* the first batch was put in order and the last holds one point
C27_Witness ==
  /\ path = "db"
  /\ pipeEnded
  /\ error = NoResult
  /\ batchSize = 2
  /\ Len(writes) = 2
  /\ Len(writes[2]) = 1
  /\ writes[1][1].line > writes[1][2].line

\* the lines an instance emits when it runs alone
Alone(inst) == RunAlone(inst, Split(tInput[inst]), 0, <<>>)

\* C28: two instances consumed in turns each emit the lines they would
\* emit alone
C28_NoSharedState ==
  \A inst \in Instances : tState[inst] = "ended" => tOut[inst] = Alone(inst)

\* C29: a record whose text is the empty string gets the empty list as
\* fields, in whitespace mode and in delimiter mode, and the next
\* recordIndex
C29_EmptyText ==
  (fsCount > 0 /\ fsRecord.text = <<>>) =>
    /\ fsRecord.fields = <<>>
    /\ fsRecord.recordIndex = fsCount - 1

\* C29 witness: with a delimiter, the second record has an empty text
C29_Witness ==
  /\ delimiter = ","
  /\ fsCount = 2
  /\ fsRecord.text = <<>>
  /\ fsRecord.recordIndex = 1

\* C30: in whitespace mode every field is a non-empty string without a
\* whitespace character, and a text of whitespace only has no field
C30_WhitespaceFields ==
  (fsCount > 0 /\ delimiter = "whitespace") =>
    /\ \A i \in 1..Len(fsRecord.fields) :
         /\ fsRecord.fields[i] # <<>>
         /\ \A j \in 1..Len(fsRecord.fields[i]) :
              fsRecord.fields[i][j] \notin WhiteSpace
    /\ (\A j \in 1..Len(fsRecord.text) : fsRecord.text[j] \in WhiteSpace) =>
         fsRecord.fields = <<>>

(***************************************************************************)
(* Properties of the blank-line buffer and of the lines emitted.           *)
(***************************************************************************)
\* the lines b .. b + n - 1 are blank lines of the window
BlankRun(b, n) == \A i \in b..(b + n - 1) : InWindow(i) /\ IsBlank(i)

\* the last line pulled went through the window and is not blank
LastPulledNonBlank == lsI > 0 /\ InWindow(lsI - 1) /\ ~IsBlank(lsI - 1)

\* C35: the blank-line buffer holds only blank lines of the window,
\* consecutive in the stream, the last of them the last line pulled, all
\* later than every non-blank line emitted; it is empty right after a
\* non-blank line and after end-of-stream, and it is a run of consecutive
\* blank lines of the window
C35_BlankBuffer ==
  /\ \A i \in 1..Len(blankBuffer) :
       /\ blankBuffer[i].text = <<>>
       /\ blankBuffer[i].lineIndex = lsI - 1 - (Len(blankBuffer) - i)
       /\ \A k \in 1..Len(out) :
            out[k].text # <<>> => out[k].lineIndex < blankBuffer[i].lineIndex
  /\ LastPulledNonBlank => blankBuffer = <<>>
  /\ ended => blankBuffer = <<>>
  /\ blankBuffer # <<>> => BlankRun(blankBuffer[1].lineIndex, Len(blankBuffer))

\* C35 witness: two blank lines are buffered after a non-blank line was
\* emitted
C35_Witness ==
  /\ ~ended
  /\ Len(blankBuffer) = 2
  /\ Len(out) >= 1
  /\ out[Len(out)].text # <<>>

\* C36: the lines emitted are lines of the window, unaltered, in strictly
\* increasing lineIndex order, and when the stream has ended every
\* non-blank line of the window was emitted, once
C36_Subsequence ==
  /\ \A k \in 1..Len(out) :
       /\ InWindow(out[k].lineIndex)
       /\ out[k].text = lines[out[k].lineIndex + 1]
       /\ k < Len(out) => out[k].lineIndex < out[k + 1].lineIndex
  /\ ended =>
       \A n \in 0..(NumLines - 1) :
         (InWindow(n) /\ ~IsBlank(n)) =>
           Cardinality({k \in 1..Len(out) : out[k].lineIndex = n}) = 1

\* C36 witness: the input does not end in a line terminator and its last
\* line was emitted after a blank line was dropped
C36_Witness ==
  /\ ended
  /\ input # <<>>
  /\ input[Len(input)] # NL
  /\ Len(out) = 2
  /\ out[2].lineIndex = NumLines - 1
  /\ out[1].lineIndex < NumLines - 2

(***************************************************************************)
(* The two encoders on the same document.                                  *)
(***************************************************************************)
\* what the file encoder and the database encoder make of the document
FileRecord ==
  IF encPhase = "lp" THEN encResult
  ELSE LineProtocolRecord(EncInput, schema, prevtime, ensureSorted)
DatabaseRecord ==
  IF encPhase = "db" THEN encResult ELSE PreparedPoint(EncInput, schema)

\* both fail, or both make a record, with the same tags, the same field
\* names, and the time in nanoseconds and in milliseconds
SameOutcome ==
  /\ (FileRecord.kind = "record") <=> (DatabaseRecord.kind = "record")
  /\ FileRecord.kind = "record" =>
       /\ FileRecord.tags = DatabaseRecord.tags
       /\ DOMAIN FileRecord.fields = DOMAIN DatabaseRecord.fields
       /\ \A k \in DOMAIN FileRecord.fields \cap Keys :
            /\ schema[k] = "text" =>
                 FileRecord.fields[k].s = ToStr(DatabaseRecord.fields[k])
            /\ schema[k] = "integer" =>
                 FileRecord.fields[k]
                   = Str(ToStr(DatabaseRecord.fields[k]) \o "i")
       /\ DatabaseRecord.ts.kind = "number" =>
            FileRecord.ts = Num(DatabaseRecord.ts.n * 1000 * 1000)

\* the file encoder refuses the document for its place in the stream
OutOfOrder ==
  /\ FileRecord.kind = "error"
  /\ FileRecord.msg = "records not in ascending chronological order"

C33_CountIsLinesWritten ==
  (path = "lp" /\ message = "success") =>
    /\ count = Len(outstream)
    /\ count = nextLine
    /\ \A i \in 1..Len(outstream) : outstream[i].line = i - 1

\* C33 witness: a run of three records ended with success
C33_Witness ==
  /\ path = "lp"
  /\ message = "success"
  /\ count = 3
  /\ Len(outstream) = 3

\* C38: on the database path the points of the batches written, taken in
\* write order, are in non-decreasing order of timestamp
C38_GloballyOrdered ==
  path = "db" =>
    \A i, j \in 1..Len(writes) :
      \A p \in 1..Len(writes[i]), q \in 1..Len(writes[j]) :
        (i < j \/ (i = j /\ p < q)) => writes[i][p].ts.n <= writes[j][q].ts.n

(***************************************************************************)
(* Properties of validateMeasurement, of the header of a standard file and *)
(* of the calls made to the database.                                      *)
(***************************************************************************)
\* an ASCII letter, a digit, '-' or '_'
AsciiLetters ==
  {LowerCaseLetters[i] : i \in 1..Len(LowerCaseLetters)}
    \cup {UpperCaseLetters[i] : i \in 1..Len(UpperCaseLetters)}
NameChar(c) == c \in AsciiLetters \cup Digits \cup {"-", "_"}

\* C31: validateMeasurement returns a result that is not null if and only
\* if the name is not empty and is made of ASCII letters, digits, '-' and
\* '_' only
C31_MeasurementName ==
  mPhase = "returned" =>
    (~mResult.null <=>
       (mName # <<>> /\ \A i \in 1..Len(mName) : NameChar(mName[i])))

\* C31 witness: the name 'A-_' was accepted
C31_Witness ==
  /\ mPhase = "returned"
  /\ mName = <<"A", "-", "_">>
  /\ ~mResult.null

\* the fields of a header line
FieldsOfLine(k) == hRaw[k].fields
ColumnKeys == HeaderKeys \ SingleKeys

\* all seven lines are there and not empty, the four lines of columns have
\* no empty column and as many columns as one another, the first header
\* is 'time' and the first type is the type time
HeaderComplete ==
  /\ \A k \in HeaderKeys : hRaw[k].present /\ FieldsOfLine(k) # <<>>
  /\ \A k \in ColumnKeys :
       \A i \in 1..Len(FieldsOfLine(k)) : FieldsOfLine(k)[i] # <<>>
  /\ \A k, l \in ColumnKeys : Len(FieldsOfLine(k)) = Len(FieldsOfLine(l))
  /\ FieldsOfLine("headers")[1] = TimeType
  /\ ToLowerCase(FieldsOfLine("types")[1]) = TimeType

\* C32: a standard file whose header is not complete is rejected with a
\* TimeSeriesCopError and no line is written to the output
C32_HeaderRequired ==
  (hPhase \in {"accepted", "rejected"} /\ ~HeaderComplete) =>
    /\ hPhase = "rejected"
    /\ hThrown.name = "TimeSeriesCopError"
    /\ hLines = 0

\* C32 witness: a file was rejected for its lines of columns, which have
\* no empty column and differ in length
C32_Witness ==
  /\ hPhase = "rejected"
  /\ hLines = 0
  /\ \A k \in HeaderKeys : hRaw[k].present /\ FieldsOfLine(k) # <<>>
  /\ \A k \in ColumnKeys :
       \A i \in 1..Len(FieldsOfLine(k)) : FieldsOfLine(k)[i] # <<>>
  /\ Len(FieldsOfLine("headers")) = 2
  /\ Len(FieldsOfLine("units")) = 1
  /\ FieldsOfLine("headers")[1] = TimeType
  /\ FieldsOfLine("types")[1] = TimeType

\* the places of the log
Places == 1..Len(kLog)
IsFailure(i) == kLog[i].ev \in {"failed", "offline"}

\* the order of the calls of a batch, and of the batches
CallOrder ==
  /\ \A i \in Places :
       (kLog[i].ev = "call" /\ kLog[i].op = "writePoints") =>
         \E j \in Places :
           j < i /\ kLog[j] = Completed(kLog[i].batch, "ping", "ok")
  /\ \A i \in Places :
       (kLog[i].ev = "call" /\ kLog[i].op = "query") =>
         /\ kWindow # 0
         /\ \E j \in Places :
              j < i /\ kLog[j] = Completed(kLog[i].batch, "writePoints", "ok")
  /\ \A i \in Places :
       (kLog[i].ev = "call" /\ kLog[i].op = "ping") =>
         \A j \in Places :
           (j < i /\ kLog[j].ev = "call") =>
             \E m \in Places :
               /\ j < m /\ m < i
               /\ kLog[m].batch = kLog[j].batch
               /\ kLog[m].op = kLog[j].op
               /\ kLog[m].ev # "call"
  /\ \A i \in Places :
       IsFailure(i) =>
         \E e \in 1..Len(kErrors) : kErrors[e] = kLog[i].batch

\* no batch is written after a failure
NothingAfterFailure ==
  \A i, j \in Places :
    (IsFailure(i) /\ i < j) => kLog[j].op # "writePoints"

\* C34 as stated: writePoints follows a ping that found every host online,
\* the query follows the writePoints of its batch and is made only with a
\* windowSize that is not zero, the ping of a batch follows the end of the
\* last call of the batch before, and a failure of a step is an error of
\* the stream after which no batch is written
C34_SinkCalls ==
  CallOrder /\ NothingAfterFailure

\* C34 amended: the same, no batch being written after a failure in a
\* pipeline that stopOnError ends
C34_SinkCallsStopped ==
  CallOrder /\ (kStops => NothingAfterFailure)

\* C34 witness: the first batch was written and downsampled, the second
\* was refused by writePoints, and the stream ended there
C34_Witness ==
  /\ kStops
  /\ kEnded
  /\ kBatch = 2
  /\ kErrors = <<2>>
  /\ Len(kLog) = 10
  /\ kLog[6] = Completed(1, "query", "ok")
  /\ kLog[10] = Completed(2, "writePoints", "failed")

====
